---- MODULE Spec2Model ----
(***************************************************************************)
(* State-machine model of the browser-side components of the photo-album   *)
(* ordering UI:                                                            *)
(*   - the upload wizard        (src/src/components/order/AlbumUpload.tsx) *)
(*   - its folder-upload revision            (src/unnamed/part_001, 1-618) *)
(*   - the order form            (src/src/components/order/OrderForm.tsx)  *)
(*   - the navigation shell                        (src/unnamed/part_000)  *)
(*                                                                         *)
(* JavaScript strings are modelled as sequences of one-character strings,  *)
(* so that endsWith, includes, split, join, trim and toLowerCase are       *)
(* computed, not assumed.  null/undefined and the empty string are both    *)
(* the empty sequence (both are falsy in every test the code makes); an    *)
(* optional object is a sequence of length at most one.                    *)
(***************************************************************************)
EXTENDS Integers, Sequences, FiniteSets, TLC

null == <<>>
Some(x) == <<x>>
Truthy(s) == s # <<>>

(***************************************************************************)
(* String primitives of the JavaScript runtime used by the components.     *)
(***************************************************************************)
UpperToLower ==
  "A" :> "a" @@ "B" :> "b" @@ "C" :> "c" @@ "D" :> "d" @@ "E" :> "e" @@
  "F" :> "f" @@ "G" :> "g" @@ "H" :> "h" @@ "I" :> "i" @@ "J" :> "j" @@
  "K" :> "k" @@ "L" :> "l" @@ "M" :> "m" @@ "N" :> "n" @@ "O" :> "o" @@
  "P" :> "p" @@ "Q" :> "q" @@ "R" :> "r" @@ "S" :> "s" @@ "T" :> "t" @@
  "U" :> "u" @@ "V" :> "v" @@ "W" :> "w" @@ "X" :> "x" @@ "Y" :> "y" @@
  "Z" :> "z"

toLowerCase(s) ==
  [i \in 1..Len(s) |-> IF s[i] \in DOMAIN UpperToLower THEN UpperToLower[s[i]] ELSE s[i]]

endsWith(s, suffix) ==
  /\ Len(suffix) <= Len(s)
  /\ SubSeq(s, Len(s) - Len(suffix) + 1, Len(s)) = suffix

includes(s, sub) ==
  \E i \in 0..(Len(s) - Len(sub)) : SubSeq(s, i + 1, i + Len(sub)) = sub

RECURSIVE split(_, _)
split(s, sep) ==
  IF \A i \in 1..Len(s) : s[i] # sep
    THEN <<s>>
    ELSE LET k == CHOOSE i \in 1..Len(s) :
                    s[i] = sep /\ \A j \in 1..(i - 1) : s[j] # sep
         IN  <<SubSeq(s, 1, k - 1)>> \o split(SubSeq(s, k + 1, Len(s)), sep)

RECURSIVE join(_, _)
join(parts, sep) ==
  IF parts = <<>> THEN <<>>
  ELSE IF Len(parts) = 1 THEN parts[1]
  ELSE parts[1] \o <<sep>> \o join(Tail(parts), sep)

\* Array.prototype.slice(0, -1): all but the last element.
sliceButLast(parts) == SubSeq(parts, 1, Len(parts) - 1)

RECURSIVE trim(_)
trim(s) ==
  IF s = <<>> THEN <<>>
  ELSE IF Head(s) = " " THEN trim(Tail(s))
  ELSE IF s[Len(s)] = " " THEN trim(SubSeq(s, 1, Len(s) - 1))
  ELSE s

\* Math.round of the non-negative quotient num / den (den > 0): halves go up.
MathRound(num, den) == (2 * num + den) \div (2 * den)

(***************************************************************************)
(* Validation policy of the upload wizard.                                 *)
(***************************************************************************)
validExtensions ==
  << <<".","z","i","p">>,
     <<".","r","a","r">>,
     <<".","7","z">>,
     <<".","p","d","f">>,
     <<".","j","p","g">>,
     <<".","j","p","e","g">>,
     <<".","p","n","g">>,
     <<".","w","e","b","p">>,
     <<".","g","i","f">>,
     <<".","b","m","p">>,
     <<".","t","i","f","f">>,
     <<".","t","i","f">> >>

validMimeTypes ==
  << <<"a","p","p","l","i","c","a","t","i","o","n","/","z","i","p">>,
     <<"a","p","p","l","i","c","a","t","i","o","n","/","x","-","r","a","r","-","c","o","m","p","r","e","s","s","e","d">>,
     <<"a","p","p","l","i","c","a","t","i","o","n","/","x","-","7","z","-","c","o","m","p","r","e","s","s","e","d">>,
     <<"a","p","p","l","i","c","a","t","i","o","n","/","p","d","f">>,
     <<"i","m","a","g","e","/","j","p","e","g">>,
     <<"i","m","a","g","e","/","p","n","g">>,
     <<"i","m","a","g","e","/","w","e","b","p">>,
     <<"i","m","a","g","e","/","g","i","f">>,
     <<"i","m","a","g","e","/","b","m","p">>,
     <<"i","m","a","g","e","/","t","i","f","f">> >>

\* 1024 * 1024 * 1024
maxSize == 1073741824

hasValidExtension(selectedFile) ==
  LET fileName == toLowerCase(selectedFile.name)
  IN  \E e \in 1..Len(validExtensions) : endsWith(fileName, validExtensions[e])

hasValidMimeType(selectedFile) ==
  \E m \in 1..Len(validMimeTypes) : includes(selectedFile.type, validMimeTypes[m])

isValidType_ExtensionOnlyWhenTyped(selectedFile) ==
  \/ hasValidExtension(selectedFile)
  \/ ~Truthy(selectedFile.type)

isValidType(selectedFile) ==
  \/ hasValidExtension(selectedFile)
  \/ (Truthy(selectedFile.type) /\ hasValidMimeType(selectedFile))

exceedsMaxSize_InKilobytes(selectedFile) == selectedFile.size \div 1024 > maxSize

exceedsMaxSize(selectedFile) == selectedFile.size > maxSize

\* selectedFile.name.split('.').slice(0, -1).join('.') || selectedFile.name
suggestedAlbumName(selectedFile) ==
  LET nameWithoutExt == join(sliceButLast(split(selectedFile.name, ".")), ".")
  IN  IF Truthy(nameWithoutExt) THEN nameWithoutExt ELSE selectedFile.name

(***************************************************************************)
(* Inputs.                                                                 *)
(***************************************************************************)
File(name, size, type) == [name |-> name, size |-> size, type |-> type]

pngType == <<"i","m","a","g","e","/","p","n","g",";","v","=","1">>
exeType == <<"a","p","p","l","i","c","a","t","i","o","n","/","x","-","m","s","d","o","w","n","l","o","a","d">>

\* Files the user may pick or drop: allowed and disallowed names and MIME
\* types, sizes at, above and below the ceiling, and an empty file.
Files ==
  { File(<<"A",".","Z","I","P">>, maxSize, <<>>),
    File(<<"A",".","Z","I","P">>, maxSize + 1, <<>>),
    File(<<"b",".","e","x","e">>, maxSize, exeType),
    File(<<"b",".","e","x","e">>, maxSize + 1, pngType),
    File(<<"n","o","e","x","t">>, 0, pngType),
    File(<<"n","o","e","x","t">>, maxSize, <<>>) }

\* Directory-picker selections: FileLists whose entries carry webkitRelativePath.
FolderEntry(path, size) ==
  [name |-> split(path, "/")[Len(split(path, "/"))], size |-> size,
   type |-> <<"i","m","a","g","e","/","j","p","e","g">>,
   webkitRelativePath |-> path]

Folders ==
  { << FolderEntry(<<"a","l","b","u","m","/","a",".","j","p","g">>, 629145600),
       FolderEntry(<<"a","l","b","u","m","/","b",".","j","p","g">>, 629145600) >> }

\* Sizes the in-browser compression may produce.
ZipSizes == { 1024, maxSize + 1 }

\* Album names the user may type.
TypedNames == { <<>>, <<" ">>, <<"w">> }

\* Values of localStorage['photofine_token'] (absent, or a token).
Tokens == { null, <<"t","o","k">> }

\* Largest byte count of the progress events of one request.
MaxTotal == 2

(***************************************************************************)
(* State.                                                                  *)
(***************************************************************************)
VARIABLES
  \* upload wizard: component state (AlbumUpload.tsx 28-39)
  albumName, file, isDragging, isUploading, uploadProgress, useGoogleDrive,
  driveFileId, selectedFolder, isConverting, conversionProgress,
  \* upload wizard: the running attempt (what uploadToGoogleDrive holds)
  request,          \* the POST in flight: null or Some(form data and headers)
  cancelled,        \* source.cancel() was called, rejection not yet handled
  timeoutArmed,     \* the 5-minute timer is pending
  progressLoaded, progressTotal,
  inFlight,         \* number of upload POSTs that have not settled yet
  convAlbumName,    \* albumName as captured by the running convertFolderToZip
  progressInterval, \* the running conversion's interval timer: null once
                    \* cleared, else Some(its currentProgress)
  leakedIntervals,  \* currentProgress of the interval timers that are still
                    \* set although their conversion has ended (two timers
                    \* with the same count are held once)
  generatorPercent, \* the last metadata.percent of the running conversion,
                    \* in tenths of a percent
  \* upload wizard: outputs
  posts,            \* POSTs issued since the last click on the submit control
  uploadedCalls,    \* onAlbumUploaded calls made by the last step
  toasts,           \* titles of the notifications shown by the last step
  \* the browser session shared by the pages
  cachedUser,       \* the cached user record: null or Some(user)
  location,         \* pathname of the current route
  \* order form: props (null while the form is not mounted) and state
  \* (OrderForm.tsx 20-42)
  orderProps, orderUser, loading, submitting, orderUploadProgress,
  uploadStatus, statusMessage, orderDetails,
  \* order form: the running submission
  orderRequest,     \* null or Some(form data and what the callback closed over)
  reportedPercentage, \* the last percentage createOrder reported
  orderInFlight,    \* number of order-creation requests not settled yet
  navigateTimers,   \* pending 1000 ms redirect timers
  orderToasts,      \* titles of the notifications shown by the last step
  \* navigation shell (part_000 29-34)
  shellMounted, shellUser, mobileMenuOpen,
  effectPending,    \* the mount effect (36-44) has not run yet
  shellToasts,      \* titles of the notifications shown by the last step
  \* folder-upload revision of the wizard: component state (part_001 28-35)
  fr_albumName, fr_file, fr_isDragging, fr_isUploading, fr_uploadProgress,
  fr_useGoogleDrive, fr_driveFileId, fr_uploadMode,
  \* folder-upload revision: the running attempt and the outputs
  fr_request, fr_cancelled, fr_timeoutArmed, fr_progressLoaded,
  fr_progressTotal, fr_uploadedCalls, fr_toasts,
  \* the outer catch of uploadToGoogleDrive taken alone
  thrown,           \* null or Some(the error the catch received)
  classified,       \* title of the notification the wizard's catch shows for it
  fr_classified     \* the same for the folder-upload revision

wizardVars ==
  << albumName, file, isDragging, isUploading, uploadProgress, useGoogleDrive,
     driveFileId, selectedFolder, isConverting, conversionProgress,
     request, cancelled, timeoutArmed, progressLoaded, progressTotal,
     inFlight, convAlbumName, progressInterval, leakedIntervals,
     generatorPercent, posts, uploadedCalls, toasts >>

sessionVars == << cachedUser, location >>

orderVars ==
  << orderProps, orderUser, loading, submitting, orderUploadProgress,
     uploadStatus, statusMessage, orderDetails, orderRequest,
     reportedPercentage, orderInFlight, navigateTimers, orderToasts >>

shellVars ==
  << shellMounted, shellUser, mobileMenuOpen, effectPending, shellToasts >>

folderRevisionVars ==
  << fr_albumName, fr_file, fr_isDragging, fr_isUploading, fr_uploadProgress,
     fr_useGoogleDrive, fr_driveFileId, fr_uploadMode, fr_request,
     fr_cancelled, fr_timeoutArmed, fr_progressLoaded, fr_progressTotal,
     fr_uploadedCalls, fr_toasts >>

catchVars == << thrown, classified, fr_classified >>

vars ==
  << wizardVars, sessionVars, orderVars, shellVars, folderRevisionVars,
     catchVars >>

outsideWizard ==
  << sessionVars, orderVars, shellVars, folderRevisionVars, catchVars >>

InitWizard ==
  /\ albumName = <<>>
  /\ file = null
  /\ isDragging = FALSE
  /\ isUploading = FALSE
  /\ uploadProgress = 0
  /\ useGoogleDrive = FALSE
  /\ driveFileId = null
  /\ selectedFolder = null
  /\ isConverting = FALSE
  /\ conversionProgress = 0
  /\ request = null
  /\ cancelled = FALSE
  /\ timeoutArmed = FALSE
  /\ progressLoaded = 0
  /\ progressTotal = 0
  /\ inFlight = 0
  /\ convAlbumName = <<>>
  /\ progressInterval = null
  /\ leakedIntervals = {}
  /\ generatorPercent = 0
  /\ posts = 0
  /\ uploadedCalls = <<>>
  /\ toasts = <<>>

(***************************************************************************)
(* Upload wizard: src/src/components/order/AlbumUpload.tsx                 *)
(***************************************************************************)
folderState ==
  << selectedFolder, isConverting, conversionProgress, convAlbumName,
     progressInterval, leakedIntervals, generatorPercent >>
attemptState ==
  << request, cancelled, timeoutArmed, progressLoaded, progressTotal, inFlight >>

\* A promise continuation is queued (the cancelled request's rejection): it
\* runs before the browser dispatches any further user event, timer or
\* network event.
ContinuationPending == request # null /\ cancelled

\* The notification validateAndSetFile shows for selectedFile.
validationToast(selectedFile) ==
  IF ~isValidType(selectedFile) THEN "Invalid file type"
  ELSE IF exceedsMaxSize(selectedFile) THEN "File too large"
  ELSE "File Selected"

\* validateAndSetFile as run by a handler that was created in a render where
\* albumName was closureAlbumName.
validateAndSetFile(selectedFile, closureAlbumName) ==
  IF ~isValidType(selectedFile)
    THEN UNCHANGED << file, useGoogleDrive, albumName >>
  ELSE IF exceedsMaxSize(selectedFile)
    THEN UNCHANGED << file, useGoogleDrive, albumName >>
  ELSE /\ file' = Some(selectedFile)
       /\ useGoogleDrive' = TRUE
       /\ albumName' = IF ~Truthy(closureAlbumName)
                         THEN suggestedAlbumName(selectedFile)
                         ELSE albumName

\* onChange of the album-name input.
SetAlbumName(value) ==
  /\ ~ContinuationPending
  /\ value # albumName
  /\ albumName' = value
  /\ uploadedCalls' = <<>>
  /\ toasts' = <<>>
  /\ UNCHANGED << file, isDragging, isUploading, uploadProgress, useGoogleDrive,
                  driveFileId, posts >>
  /\ UNCHANGED << folderState, attemptState >>
  /\ UNCHANGED outsideWizard

handleFileChange(selectedFile) ==
  /\ ~ContinuationPending
  /\ validateAndSetFile(selectedFile, albumName)
  /\ uploadedCalls' = <<>>
  /\ toasts' = << validationToast(selectedFile) >>
  /\ UNCHANGED << isDragging, isUploading, uploadProgress, driveFileId, posts >>
  /\ UNCHANGED << folderState, attemptState >>
  /\ UNCHANGED outsideWizard

handleDragOver ==
  /\ ~ContinuationPending
  /\ ~isDragging
  /\ isDragging' = TRUE
  /\ uploadedCalls' = <<>>
  /\ toasts' = <<>>
  /\ UNCHANGED << albumName, file, isUploading, uploadProgress, useGoogleDrive,
                  driveFileId, posts >>
  /\ UNCHANGED << folderState, attemptState >>
  /\ UNCHANGED outsideWizard

handleDragLeave ==
  /\ ~ContinuationPending
  /\ isDragging
  /\ isDragging' = FALSE
  /\ uploadedCalls' = <<>>
  /\ toasts' = <<>>
  /\ UNCHANGED << albumName, file, isUploading, uploadProgress, useGoogleDrive,
                  driveFileId, posts >>
  /\ UNCHANGED << folderState, attemptState >>
  /\ UNCHANGED outsideWizard

\* A drop follows a dragover on the drop zone.
handleDrop(droppedFile) ==
  /\ ~ContinuationPending
  /\ isDragging
  /\ isDragging' = FALSE
  /\ validateAndSetFile(droppedFile, albumName)
  /\ uploadedCalls' = <<>>
  /\ toasts' = << validationToast(droppedFile) >>
  /\ UNCHANGED << isUploading, uploadProgress, driveFileId, posts >>
  /\ UNCHANGED << folderState, attemptState >>
  /\ UNCHANGED outsideWizard

\* The "Remove File" button, rendered while a file is selected.
clearFile ==
  /\ ~ContinuationPending
  /\ file # null
  /\ file' = null
  /\ useGoogleDrive' = FALSE
  /\ uploadedCalls' = <<>>
  /\ toasts' = <<>>
  /\ UNCHANGED << albumName, isDragging, isUploading, uploadProgress,
                  driveFileId, posts >>
  /\ UNCHANGED << folderState, attemptState >>
  /\ UNCHANGED outsideWizard

\* onChange of the directory input, opened by the "Select Folder" button,
\* which is rendered only while no folder is selected.
handleFolderSelect(files) ==
  /\ ~ContinuationPending
  /\ selectedFolder = null
  /\ Len(files) > 0
  /\ selectedFolder' = Some(files)
  /\ albumName' = IF ~Truthy(albumName)
                    THEN split(files[1].webkitRelativePath, "/")[1]
                    ELSE albumName
  /\ uploadedCalls' = <<>>
  /\ toasts' = <<>>
  /\ UNCHANGED << file, isDragging, isUploading, uploadProgress, useGoogleDrive,
                  driveFileId, posts, isConverting, conversionProgress,
                  convAlbumName, progressInterval, leakedIntervals,
                  generatorPercent >>
  /\ UNCHANGED attemptState
  /\ UNCHANGED outsideWizard

\* The X button of the folder panel, disabled while converting.
clearFolder ==
  /\ ~ContinuationPending
  /\ selectedFolder # null
  /\ ~isConverting
  /\ selectedFolder' = null
  /\ uploadedCalls' = <<>>
  /\ toasts' = <<>>
  /\ UNCHANGED << albumName, file, isDragging, isUploading, uploadProgress,
                  useGoogleDrive, driveFileId, posts, isConverting,
                  conversionProgress, convAlbumName, progressInterval,
                  leakedIntervals, generatorPercent >>
  /\ UNCHANGED attemptState
  /\ UNCHANGED outsideWizard

\* "Convert to ZIP and Select", rendered while a folder is selected and no
\* conversion runs: convertFolderToZip up to its first await.
convertFolderToZip ==
  /\ ~ContinuationPending
  /\ selectedFolder # null
  /\ ~isConverting
  /\ isConverting' = TRUE
  /\ conversionProgress' = 0
  /\ convAlbumName' = albumName
  /\ progressInterval' = Some(0)
  /\ generatorPercent' = 0
  /\ uploadedCalls' = <<>>
  /\ toasts' = <<>>
  /\ UNCHANGED << albumName, file, isDragging, isUploading, uploadProgress,
                  useGoogleDrive, driveFileId, posts, selectedFolder,
                  leakedIntervals >>
  /\ UNCHANGED attemptState
  /\ UNCHANGED outsideWizard

\* convertFolderToZipDone with setFile in place of validateAndSetFile
convertFolderToZipDone_SkipsValidation(zipSize) ==
  /\ ~ContinuationPending
  /\ isConverting
  /\ LET folderName == split(selectedFolder[1][1].webkitRelativePath, "/")[1]
         zipFile == File(folderName \o <<".","z","i","p">>, zipSize,
                         <<"a","p","p","l","i","c","a","t","i","o","n","/","z","i","p">>)
     IN  /\ conversionProgress' = 100
         /\ file' = Some(zipFile)
         /\ useGoogleDrive' = TRUE
         /\ UNCHANGED albumName
         /\ toasts' = << validationToast(zipFile), "Folder Converted" >>
  /\ isConverting' = FALSE
  /\ convAlbumName' = <<>>
  /\ progressInterval' = null
  /\ generatorPercent' = 0
  /\ uploadedCalls' = <<>>
  /\ UNCHANGED << isDragging, isUploading, uploadProgress, driveFileId, posts,
                  selectedFolder, leakedIntervals >>
  /\ UNCHANGED attemptState
  /\ UNCHANGED outsideWizard

\* The archive has been generated: the rest of the try block and finally.
convertFolderToZipDone(zipSize) ==
  /\ ~ContinuationPending
  /\ isConverting
  /\ LET folderName == split(selectedFolder[1][1].webkitRelativePath, "/")[1]
         zipFile == File(folderName \o <<".","z","i","p">>, zipSize,
                         <<"a","p","p","l","i","c","a","t","i","o","n","/","z","i","p">>)
     IN  /\ conversionProgress' = 100
         /\ validateAndSetFile(zipFile, convAlbumName)
         /\ toasts' = << validationToast(zipFile), "Folder Converted" >>
  /\ isConverting' = FALSE
  /\ convAlbumName' = <<>>
  /\ progressInterval' = null
  /\ generatorPercent' = 0
  /\ uploadedCalls' = <<>>
  /\ UNCHANGED << isDragging, isUploading, uploadProgress, driveFileId, posts,
                  selectedFolder, leakedIntervals >>
  /\ UNCHANGED attemptState
  /\ UNCHANGED outsideWizard

\* Loading the archive library, reading a file or compressing threw: the
\* catch and finally blocks.  progressInterval is a const of the try block,
\* so neither block clears the timer.
convertFolderToZipThrows ==
  /\ ~ContinuationPending
  /\ isConverting
  /\ isConverting' = FALSE
  /\ convAlbumName' = <<>>
  /\ leakedIntervals' = IF progressInterval # null
                          THEN leakedIntervals \cup { progressInterval[1] }
                          ELSE leakedIntervals
  /\ progressInterval' = null
  /\ generatorPercent' = 0
  /\ uploadedCalls' = <<>>
  /\ toasts' = << "Conversion Failed" >>
  /\ UNCHANGED << albumName, file, isDragging, isUploading, uploadProgress,
                  useGoogleDrive, driveFileId, posts, selectedFolder,
                  conversionProgress >>
  /\ UNCHANGED attemptState
  /\ UNCHANGED outsideWizard

\* What the callback of setInterval (74-81) does with its currentProgress:
\* the count after the step, whether the timer stays set, and the value it
\* passes to setConversionProgress.
intervalStep(currentProgress) ==
  LET next == currentProgress + 5
  IN  IF next > 95
        THEN [currentProgress |-> next, set |-> FALSE,
              conversionProgress |-> conversionProgress]
        ELSE [currentProgress |-> next, set |-> TRUE,
              conversionProgress |-> next]

\* The 100 ms interval timer of the running conversion fires.
progressIntervalFires ==
  /\ ~ContinuationPending
  /\ progressInterval # null
  /\ LET step == intervalStep(progressInterval[1])
     IN  /\ progressInterval' = IF step.set THEN Some(step.currentProgress)
                                            ELSE null
         /\ conversionProgress' = step.conversionProgress
  /\ uploadedCalls' = <<>>
  /\ toasts' = <<>>
  /\ UNCHANGED << albumName, file, isDragging, isUploading, uploadProgress,
                  useGoogleDrive, driveFileId, posts, selectedFolder,
                  isConverting, convAlbumName, leakedIntervals,
                  generatorPercent >>
  /\ UNCHANGED attemptState
  /\ UNCHANGED outsideWizard

\* The interval timer of a conversion that has ended fires.
leakedIntervalFires ==
  /\ ~ContinuationPending
  /\ \E currentProgress \in leakedIntervals :
       LET step == intervalStep(currentProgress)
       IN  /\ leakedIntervals' =
                (leakedIntervals \ { currentProgress })
                  \cup (IF step.set THEN { step.currentProgress } ELSE {})
           /\ conversionProgress' = step.conversionProgress
  /\ uploadedCalls' = <<>>
  /\ toasts' = <<>>
  /\ UNCHANGED << albumName, file, isDragging, isUploading, uploadProgress,
                  useGoogleDrive, driveFileId, posts, selectedFolder,
                  isConverting, convAlbumName, progressInterval,
                  generatorPercent >>
  /\ UNCHANGED attemptState
  /\ UNCHANGED outsideWizard

\* Math.floor of a non-negative quotient
MathFloor(num, den) == num \div den

\* The progress callback of generateAsync (112-114), called with a percent
\* (in tenths) that is not below the one it reported before.
generatorProgress(percent) ==
  /\ ~ContinuationPending
  /\ isConverting
  /\ percent >= generatorPercent
  /\ generatorPercent' = percent
  /\ conversionProgress' = MathFloor(percent, 10)
  /\ uploadedCalls' = <<>>
  /\ toasts' = <<>>
  /\ UNCHANGED << albumName, file, isDragging, isUploading, uploadProgress,
                  useGoogleDrive, driveFileId, posts, selectedFolder,
                  isConverting, convAlbumName, progressInterval,
                  leakedIntervals >>
  /\ UNCHANGED attemptState
  /\ UNCHANGED outsideWizard

(***************************************************************************)
(* Upload transport of the wizard: uploadToGoogleDrive and handleSubmit.   *)
(***************************************************************************)
\* disabled={!file || !albumName.trim() || isUploading}
submitDisabled_IgnoresUploading ==
  ~Truthy(file) \/ ~Truthy(trim(albumName))

submitDisabled ==
  ~Truthy(file) \/ ~Truthy(trim(albumName)) \/ isUploading

\* authorizationHeader without the scheme
authorizationHeader_BareToken(token) ==
  IF Truthy(token) THEN token ELSE <<>>

\* 'Authorization': token ? `Bearer ${token}` : ''
authorizationHeader(token) ==
  IF Truthy(token) THEN <<"B","e","a","r","e","r"," ">> \o token ELSE <<>>

\* Math.round((progressEvent.loaded * 100) / progressEvent.total)
percentCompleted_Remaining(loaded, total) == MathRound((total - loaded) * 100, total)

percentCompleted(loaded, total) == MathRound(loaded * 100, total)

\* Responses of the upload endpoint that resolve the request (HTTP 2xx).
Responses ==
  { [success |-> TRUE,  id |-> <<"d","r","i","v","e","-","1">>],
    [success |-> TRUE,  id |-> null],
    [success |-> FALSE, id |-> null] }

\* Errors the HTTP client rejects the request with: whether isAxiosError
\* accepts them, their code and message, and the status of the response
\* (0: no response was received).
timeoutWord == <<"t","i","m","e","o","u","t">>

HttpError(code, status, message) ==
  [isAxios |-> TRUE, code |-> code, status |-> status, message |-> message]

HttpErrors ==
  { HttpError("ERR_NETWORK", 0,
      <<"N","e","t","w","o","r","k"," ","E","r","r","o","r">>),
    HttpError("ECONNABORTED", 0,
      <<"t","i","m","e","o","u","t"," ","o","f"," ","3","0","0","0","0","0","m","s"," ","e","x","c","e","e","d","e","d">>),
    HttpError("ERR_BAD_REQUEST", 413,
      <<"R","e","q","u","e","s","t"," ","f","a","i","l","e","d"," ","w","i","t","h"," ","s","t","a","t","u","s"," ","c","o","d","e"," ","4","1","3">>),
    HttpError("ERR_BAD_RESPONSE", 500,
      <<"R","e","q","u","e","s","t"," ","f","a","i","l","e","d"," ","w","i","t","h"," ","s","t","a","t","u","s"," ","c","o","d","e"," ","5","0","0">>),
    HttpError("ERR_BAD_REQUEST", 400,
      <<"R","e","q","u","e","s","t"," ","f","a","i","l","e","d"," ","w","i","t","h"," ","s","t","a","t","u","s"," ","c","o","d","e"," ","4","0","0">>) }

\* What source.cancel('Upload timeout - operation took too long') rejects the
\* request with.  Whether isAxiosError accepts a cancellation depends on the
\* HTTP client's version, which the sources do not pin.
CancelErrors ==
  { [isAxios |-> a, code |-> "ERR_CANCELED", status |-> 0,
     message |-> <<"U","p","l","o","a","d"," ","t","i","m","e","o","u","t"," ","-"," ","o","p","e","r","a","t","i","o","n"," ","t","o","o","k"," ","t","o","o"," ","l","o","n","g">>]
    : a \in BOOLEAN }

\* throw new Error(response.data?.message || "Upload to Google Drive failed")
failureFlagError ==
  [isAxios |-> FALSE, code |-> "", status |-> 0,
   message |-> <<"U","p","l","o","a","d"," ","t","o"," ","G","o","o","g","l","e"," ","D","r","i","v","e"," ","f","a","i","l","e","d">>]

\* The title of the notification the outer catch block shows for error.
errorToast(error) ==
  IF error.isAxios
    THEN IF error.code = "ERR_NETWORK" THEN "Network Error"
         ELSE IF error.code = "ECONNABORTED" \/ includes(error.message, timeoutWord)
           THEN "Upload Timeout"
         ELSE IF error.status = 413 THEN "Upload Too Large"
         ELSE IF error.status = 500 THEN "Server Error"
         ELSE "Upload Failed"
    ELSE "Upload Failed"

\* Click on "Continue to Order Details": handleSubmit, then
\* uploadToGoogleDrive(file) up to its await of the POST (or, for an empty
\* file, to its end).  token is what localStorage holds at that moment,
\* total the byte count the browser will report for the request body.
handleSubmit(token, total) ==
  /\ ~ContinuationPending
  /\ ~submitDisabled
  /\ IF ~Truthy(file) \/ ~Truthy(trim(albumName))
       THEN /\ toasts' = << "Error" >>
            /\ UNCHANGED << isUploading, uploadProgress, attemptState, posts >>
       ELSE LET fileToUpload == file[1]
            IN  IF fileToUpload.size > 0
                  THEN /\ isUploading' = TRUE
                       /\ uploadProgress' = 0
                       /\ request' = Some([albumFiles |-> fileToUpload,
                                           albumName |-> albumName,
                                           token |-> token,
                                           Authorization |-> authorizationHeader(token)])
                       /\ posts' = 1
                       /\ inFlight' = inFlight + 1
                       /\ cancelled' = FALSE
                       /\ timeoutArmed' = TRUE
                       /\ progressLoaded' = 0
                       /\ progressTotal' = total
                       /\ toasts' = <<>>
                  ELSE /\ toasts' = << "Upload Error" >>
                       /\ isUploading' = FALSE
                       /\ uploadProgress' = 0
                       /\ posts' = 0
                       /\ UNCHANGED attemptState
  /\ uploadedCalls' = <<>>
  /\ UNCHANGED << albumName, file, isDragging, useGoogleDrive, driveFileId >>
  /\ UNCHANGED folderState
  /\ UNCHANGED outsideWizard

\* onUploadProgress: an upload-progress event of the request in flight, whose
\* loaded count does not decrease and does not exceed the total.  A total of
\* 0 stands for events whose total is not computable.
onUploadProgress(loaded) ==
  /\ request # null
  /\ ~cancelled
  /\ loaded > progressLoaded
  /\ progressTotal # 0 => loaded <= progressTotal
  /\ progressLoaded' = loaded
  /\ uploadProgress' = IF progressTotal # 0
                         THEN percentCompleted(loaded, progressTotal)
                         ELSE uploadProgress
  /\ uploadedCalls' = <<>>
  /\ toasts' = <<>>
  /\ UNCHANGED << albumName, file, isDragging, isUploading, useGoogleDrive,
                  driveFileId, posts, request, cancelled, timeoutArmed,
                  progressTotal, inFlight >>
  /\ UNCHANGED folderState
  /\ UNCHANGED outsideWizard

\* attemptEnds without clearTimeout
attemptEnds_LeavesTimerArmed ==
  /\ isUploading' = FALSE
  /\ uploadProgress' = 0
  /\ request' = null
  /\ cancelled' = FALSE
  /\ UNCHANGED timeoutArmed
  /\ progressLoaded' = 0
  /\ progressTotal' = 0
  /\ inFlight' = inFlight - 1

\* The end of every attempt: clearTimeout, then the catch and finally blocks'
\* setIsUploading(false) and setUploadProgress(0).
attemptEnds ==
  /\ isUploading' = FALSE
  /\ uploadProgress' = 0
  /\ request' = null
  /\ cancelled' = FALSE
  /\ timeoutArmed' = FALSE
  /\ progressLoaded' = 0
  /\ progressTotal' = 0
  /\ inFlight' = inFlight - 1

\* uploadResponds with the callback invoked ahead of the success check
uploadResponds_CallsBackFirst(response) ==
  /\ request # null
  /\ ~cancelled
  /\ uploadedCalls' = << [albumName |-> request[1].albumName,
                          file |-> request[1].albumFiles,
                          driveFileId |-> response.id] >>
  /\ IF response.success
       THEN /\ driveFileId' = IF Truthy(response.id) THEN response.id ELSE driveFileId
            /\ toasts' = << "Upload Successful" >>
       ELSE /\ toasts' = << errorToast(failureFlagError) >>
            /\ UNCHANGED driveFileId
  /\ attemptEnds
  /\ UNCHANGED << albumName, file, isDragging, useGoogleDrive, posts >>
  /\ UNCHANGED folderState
  /\ UNCHANGED outsideWizard

\* The POST resolved: clearTimeout, the success check, then finally.
uploadResponds(response) ==
  /\ request # null
  /\ ~cancelled
  /\ IF response.success
       THEN /\ driveFileId' = IF Truthy(response.id) THEN response.id ELSE driveFileId
            /\ uploadedCalls' = << [albumName |-> request[1].albumName,
                                    file |-> request[1].albumFiles,
                                    driveFileId |-> response.id] >>
            /\ toasts' = << "Upload Successful" >>
       ELSE /\ uploadedCalls' = <<>>
            /\ toasts' = << errorToast(failureFlagError) >>
            /\ UNCHANGED driveFileId
  /\ attemptEnds
  /\ UNCHANGED << albumName, file, isDragging, useGoogleDrive, posts >>
  /\ UNCHANGED folderState
  /\ UNCHANGED outsideWizard

uploadRejects_Retries(error) ==
  /\ request # null
  /\ ~cancelled
  /\ posts' = posts + 1
  /\ uploadedCalls' = <<>>
  /\ toasts' = << errorToast(error) >>
  /\ UNCHANGED << albumName, file, isDragging, isUploading, uploadProgress,
                  useGoogleDrive, driveFileId, request, cancelled, timeoutArmed,
                  progressLoaded, progressTotal, inFlight >>
  /\ UNCHANGED folderState
  /\ UNCHANGED outsideWizard

uploadRejects_ClearsFile(error) ==
  /\ request # null
  /\ ~cancelled
  /\ attemptEnds
  /\ file' = null
  /\ useGoogleDrive' = FALSE
  /\ uploadedCalls' = <<>>
  /\ toasts' = << errorToast(error) >>
  /\ UNCHANGED << albumName, isDragging, driveFileId, posts >>
  /\ UNCHANGED folderState
  /\ UNCHANGED outsideWizard

\* The POST was rejected by the HTTP client (network error, its own timeout,
\* an error status): inner catch (clearTimeout), outer catch, finally.
uploadRejects(error) ==
  /\ request # null
  /\ ~cancelled
  /\ attemptEnds
  /\ uploadedCalls' = <<>>
  /\ toasts' = << errorToast(error) >>
  /\ UNCHANGED << albumName, file, isDragging, useGoogleDrive, driveFileId, posts >>
  /\ UNCHANGED folderState
  /\ UNCHANGED outsideWizard

\* The callback of the 5-minute timer: source.cancel(...) and its notification.
uploadTimeout ==
  /\ request # null
  /\ timeoutArmed
  /\ ~cancelled
  /\ cancelled' = TRUE
  /\ timeoutArmed' = FALSE
  /\ uploadedCalls' = <<>>
  /\ toasts' = << "Upload Timeout" >>
  /\ UNCHANGED << albumName, file, isDragging, isUploading, uploadProgress,
                  useGoogleDrive, driveFileId, posts, request, progressLoaded,
                  progressTotal, inFlight >>
  /\ UNCHANGED folderState
  /\ UNCHANGED outsideWizard

uploadCancelled_ClearsFile(error) ==
  /\ request # null
  /\ cancelled
  /\ attemptEnds
  /\ file' = null
  /\ useGoogleDrive' = FALSE
  /\ uploadedCalls' = <<>>
  /\ toasts' = << errorToast(error) >>
  /\ UNCHANGED << albumName, isDragging, driveFileId, posts >>
  /\ UNCHANGED folderState
  /\ UNCHANGED outsideWizard

\* The cancelled POST's rejection reaches the catch blocks and finally.
uploadCancelled(error) ==
  /\ request # null
  /\ cancelled
  /\ attemptEnds
  /\ uploadedCalls' = <<>>
  /\ toasts' = << errorToast(error) >>
  /\ UNCHANGED << albumName, file, isDragging, useGoogleDrive, driveFileId, posts >>
  /\ UNCHANGED folderState
  /\ UNCHANGED outsideWizard

\* The wizard's steps, with the user's and the environment's inputs drawn
\* from the given sets.
NextWizardOn(files, names, folders, zipSizes, tokens, totals, errors) ==
  \/ \E value \in names : SetAlbumName(value)
  \/ \E f \in files : handleFileChange(f)
  \/ handleDragOver
  \/ handleDragLeave
  \/ \E f \in files : handleDrop(f)
  \/ clearFile
  \/ \E fileList \in folders : handleFolderSelect(fileList)
  \/ clearFolder
  \/ convertFolderToZip
  \/ \E zipSize \in zipSizes : convertFolderToZipDone(zipSize)
  \/ convertFolderToZipThrows
  \/ \E token \in tokens, total \in totals : handleSubmit(token, total)
  \/ \E loaded \in 1..MaxTotal : onUploadProgress(loaded)
  \/ \E response \in Responses : uploadResponds(response)
  \/ \E error \in errors : uploadRejects(error)
  \/ uploadTimeout
  \/ \E error \in CancelErrors : uploadCancelled(error)

(***************************************************************************)
(* Order form: src/src/components/order/OrderForm.tsx                      *)
(*                                                                         *)
(* uploadProgress of the form is kept in hundredths of a percent, so that  *)
(* 85 + percentage * 0.15 is exact (8500 + 15 * percentage).               *)
(***************************************************************************)
Digits == << "0", "1", "2", "3", "4", "5", "6", "7", "8", "9" >>

\* Number.prototype.toString() of a non-negative integer
RECURSIVE numberToString(_)
numberToString(n) ==
  IF n < 10 THEN << Digits[n + 1] >>
  ELSE numberToString(n \div 10) \o << Digits[(n % 10) + 1] >>

\* Boolean.prototype.toString()
booleanToString(b) ==
  IF b THEN << "t", "r", "u", "e" >> ELSE << "f", "a", "l", "s", "e" >>

Min(a, b) == IF a <= b THEN a ELSE b

initialOrderDetails ==
  [pageType |-> "Regular", lamination |-> "Glossy", transparent |-> FALSE,
   emboss |-> FALSE, miniBook |-> FALSE, coverType |-> "Matte"]

\* The values each control of the form can pass to handleChange.
FieldValues ==
  [pageType |-> { "Regular", "NT-Slim", "NT-Thick" },
   lamination |-> { "Glossy", "Matte", "Velvet", "Texture", "None" },
   coverType |-> { "Matte", "Glossy", "Velvet", "Texture", "Sparkle" },
   transparent |-> BOOLEAN, emboss |-> BOOLEAN, miniBook |-> BOOLEAN]

\* The file-reference part of the form data.
fileFields_Both(props) ==
  [driveFileId |-> props.driveFileId,
   fileName_info |-> props.albumFile.name,
   fileSize_info |-> numberToString(props.albumFile.size),
   fileMimeType_info |-> props.albumFile.type,
   file |-> props.albumFile]

fileFields(props) ==
  IF Truthy(props.driveFileId)
    THEN [driveFileId |-> props.driveFileId,
          fileName_info |-> props.albumFile.name,
          fileSize_info |-> numberToString(props.albumFile.size),
          fileMimeType_info |-> props.albumFile.type]
    ELSE [file |-> props.albumFile]

\* The multipart form data handleSubmit assembles: a function from the
\* appended field names to their values.
formData(props, details) ==
  fileFields(props) @@
  [albumName |-> props.albumName,
   pageType |-> details.pageType,
   lamination |-> details.lamination,
   transparent |-> booleanToString(details.transparent),
   emboss |-> booleanToString(details.emboss),
   miniBook |-> booleanToString(details.miniBook),
   coverType |-> details.coverType]

\* adjustedPercentage, in hundredths of a percent
adjustedPercentage(props, percentage) ==
  IF Truthy(props.driveFileId)
    THEN Min(8500 + 15 * percentage, 10000)
    ELSE 100 * percentage

orderFormState ==
  << orderUser, loading, submitting, orderUploadProgress, uploadStatus,
     statusMessage, orderDetails >>

orderSubmission ==
  << orderRequest, reportedPercentage, orderInFlight >>

outsideOrder ==
  << wizardVars, shellVars, folderRevisionVars, catchVars, cachedUser >>

InitOrder ==
  /\ orderProps = null
  /\ orderUser = null
  /\ loading = FALSE
  /\ submitting = FALSE
  /\ orderUploadProgress = 0
  /\ uploadStatus = "idle"
  /\ statusMessage = << "" >>
  /\ orderDetails = initialOrderDetails
  /\ orderRequest = null
  /\ reportedPercentage = 0
  /\ orderInFlight = 0
  /\ navigateTimers = 0
  /\ orderToasts = <<>>

\* The page renders the form with the wizard's result: the component
\* function runs (its useState initialisers and the mount effect both read
\* the cached user).
OrderFormMount(props) ==
  /\ orderProps = null
  /\ orderProps' = Some(props)
  /\ orderUser' = cachedUser
  /\ loading' = FALSE
  /\ submitting' = FALSE
  /\ orderUploadProgress' = 0
  /\ uploadStatus' = "idle"
  /\ statusMessage' = << "" >>
  /\ orderDetails' = initialOrderDetails
  /\ orderToasts' = <<>>
  /\ UNCHANGED << orderSubmission, navigateTimers, location >>
  /\ UNCHANGED outsideOrder

handleChange(field, value) ==
  /\ orderProps # null
  /\ orderDetails' = [orderDetails EXCEPT ![field] = value]
  /\ orderToasts' = <<>>
  /\ UNCHANGED << orderProps, orderUser, loading, submitting,
                  orderUploadProgress, uploadStatus, statusMessage,
                  orderSubmission, navigateTimers, location >>
  /\ UNCHANGED outsideOrder

\* {loading && ( ... )}: the status panel (281-316)
statusPanelVisible == loading

\* orderSubmitDisabled with the loading flag alone
orderSubmitDisabled_LoadingOnly == loading

\* disabled={loading || submitting}
orderSubmitDisabled == loading \/ submitting

\* OrderForm_handleSubmit without the test of the user
OrderForm_handleSubmit_NoUserCheck ==
  /\ orderProps # null
  /\ ~orderSubmitDisabled
  /\ loading' = TRUE
  /\ submitting' = TRUE
  /\ uploadStatus' = "uploading"
  /\ orderUploadProgress' = 500
  /\ statusMessage' =
       IF Truthy(orderProps[1].driveFileId)
         THEN << "Creating your order..." >>
         ELSE << "Uploading album and creating order..." >>
  /\ orderRequest' =
       Some([formData |-> formData(orderProps[1], orderDetails),
             uploadStatus |-> uploadStatus])
  /\ reportedPercentage' = 0
  /\ orderInFlight' = orderInFlight + 1
  /\ orderToasts' = <<>>
  /\ UNCHANGED << orderProps, orderUser, orderDetails, navigateTimers,
                  location >>
  /\ UNCHANGED outsideOrder

\* Submission of the form: handleSubmit up to its await of createOrder.
OrderForm_handleSubmit ==
  /\ orderProps # null
  /\ ~orderSubmitDisabled
  /\ IF ~Truthy(orderUser)
       THEN /\ orderToasts' = << "Error" >>
            /\ UNCHANGED << loading, submitting, orderUploadProgress,
                            uploadStatus, statusMessage, orderSubmission >>
       ELSE /\ loading' = TRUE
            /\ submitting' = TRUE
            /\ uploadStatus' = "uploading"
            /\ orderUploadProgress' = 500
            /\ statusMessage' =
                 IF Truthy(orderProps[1].driveFileId)
                   THEN << "Creating your order..." >>
                   ELSE << "Uploading album and creating order..." >>
            /\ orderRequest' =
                 Some([formData |-> formData(orderProps[1], orderDetails),
                       uploadStatus |-> uploadStatus])
            /\ reportedPercentage' = 0
            /\ orderInFlight' = orderInFlight + 1
            /\ orderToasts' = <<>>
  /\ UNCHANGED << orderProps, orderUser, orderDetails, navigateTimers,
                  location >>
  /\ UNCHANGED outsideOrder

\* The progress callback handed to createOrder, called with a percentage in
\* [0, 100] that is not below the one reported before.
OrderForm_onProgress(percentage) ==
  /\ orderRequest # null
  /\ percentage >= reportedPercentage
  /\ reportedPercentage' = percentage
  /\ IF percentage # 0
       THEN LET adjusted == adjustedPercentage(orderProps[1], percentage)
                rounded == MathRound(adjusted, 100)
            IN  /\ orderUploadProgress' = adjusted
                /\ IF percentage > 90 /\ orderRequest[1].uploadStatus = "uploading"
                     THEN /\ statusMessage' = << "Finalizing your order..." >>
                          /\ uploadStatus' = "processing"
                     ELSE /\ statusMessage' =
                               IF Truthy(orderProps[1].driveFileId)
                                 THEN << "Creating your order... ", rounded, "%" >>
                                 ELSE << "Uploading and creating your order... ",
                                         rounded, "%" >>
                          /\ UNCHANGED uploadStatus
       ELSE UNCHANGED << orderUploadProgress, statusMessage, uploadStatus >>
  /\ orderToasts' = <<>>
  /\ UNCHANGED << orderProps, orderUser, loading, submitting, orderDetails,
                  orderRequest, orderInFlight, navigateTimers, location >>
  /\ UNCHANGED outsideOrder

\* createOrderResolves with navigate called at once instead of from a timer
createOrderResolves_NavigatesAtOnce ==
  /\ orderRequest # null
  /\ orderUploadProgress' = 10000
  /\ uploadStatus' = "complete"
  /\ statusMessage' = << "Order created!" >>
  /\ orderToasts' = << "Order Created" >>
  /\ location' = "/orders"
  /\ loading' = FALSE
  /\ orderRequest' = null
  /\ reportedPercentage' = 0
  /\ orderInFlight' = orderInFlight - 1
  /\ UNCHANGED << orderProps, orderUser, submitting, orderDetails,
                  navigateTimers >>
  /\ UNCHANGED outsideOrder

\* createOrder resolved: lines 128-143, then finally.
createOrderResolves ==
  /\ orderRequest # null
  /\ orderUploadProgress' = 10000
  /\ uploadStatus' = "complete"
  /\ statusMessage' = << "Order created!" >>
  /\ orderToasts' = << "Order Created" >>
  /\ navigateTimers' = navigateTimers + 1
  /\ loading' = FALSE
  /\ orderRequest' = null
  /\ reportedPercentage' = 0
  /\ orderInFlight' = orderInFlight - 1
  /\ UNCHANGED << orderProps, orderUser, submitting, orderDetails, location >>
  /\ UNCHANGED outsideOrder

\* createOrderRejects with the status put back to its initial value
createOrderRejects_BackToIdle ==
  /\ orderRequest # null
  /\ submitting' = FALSE
  /\ uploadStatus' = "idle"
  /\ statusMessage' = << "Order creation failed. Please try again." >>
  /\ orderToasts' = << "Error" >>
  /\ loading' = FALSE
  /\ orderRequest' = null
  /\ reportedPercentage' = 0
  /\ orderInFlight' = orderInFlight - 1
  /\ UNCHANGED << orderProps, orderUser, orderUploadProgress, orderDetails,
                  navigateTimers, location >>
  /\ UNCHANGED outsideOrder

\* createOrder rejected: catch (144-152), then finally.
createOrderRejects ==
  /\ orderRequest # null
  /\ submitting' = FALSE
  /\ uploadStatus' = "error"
  /\ statusMessage' = << "Order creation failed. Please try again." >>
  /\ orderToasts' = << "Error" >>
  /\ loading' = FALSE
  /\ orderRequest' = null
  /\ reportedPercentage' = 0
  /\ orderInFlight' = orderInFlight - 1
  /\ UNCHANGED << orderProps, orderUser, orderUploadProgress, orderDetails,
                  navigateTimers, location >>
  /\ UNCHANGED outsideOrder

\* The 1000 ms timer fires: navigate("/orders?created=...", replace); the
\* route change takes the form off the page.
navigateToOrders ==
  /\ navigateTimers > 0
  /\ navigateTimers' = navigateTimers - 1
  /\ location' = "/orders"
  /\ orderProps' = null
  /\ orderUser' = null
  /\ loading' = FALSE
  /\ submitting' = FALSE
  /\ orderUploadProgress' = 0
  /\ uploadStatus' = "idle"
  /\ statusMessage' = << "" >>
  /\ orderDetails' = initialOrderDetails
  /\ orderToasts' = <<>>
  /\ UNCHANGED orderSubmission
  /\ UNCHANGED outsideOrder

\* The form's steps, with its inputs drawn from the given sets.
NextOrderOn(propsSet, fields, percentages) ==
  \/ \E props \in propsSet : OrderFormMount(props)
  \/ \E field \in fields : \E value \in FieldValues[field] :
       handleChange(field, value)
  \/ OrderForm_handleSubmit
  \/ \E percentage \in percentages : OrderForm_onProgress(percentage)
  \/ createOrderResolves
  \/ createOrderRejects
  \/ navigateToOrders

(***************************************************************************)
(* Navigation shell: src/unnamed/part_000 (DashboardLayout).               *)
(*                                                                         *)
(* The session service (getCurrentUser, logoutUser) is outside the         *)
(* sources at hand: it is modelled from its description, a locally cached  *)
(* user record that logging out clears.  The login route is not wrapped    *)
(* by the shell, so navigating to it takes the shell off the page.         *)
(***************************************************************************)
getCurrentUser == cachedUser

logoutUser == cachedUser' = null

navItems ==
  << [href |-> "/dashboard", label |-> "Dashboard", roles |-> { "user" }],
     [href |-> "/orders", label |-> "Orders", roles |-> { "user" }],
     [href |-> "/admin", label |-> "Admin", roles |-> { "admin" }],
     [href |-> "/photographers", label |-> "Photographers",
      roles |-> { "admin" }] >>

\* filteredNavItems without the filter
filteredNavItems_All(user) == navItems

filteredNavItems(user) ==
  SelectSeq(navItems, LAMBDA item : user.role \in item.roles)

ShellRoutes == { navItems[i].href : i \in 1..Len(navItems) }

\* if (!user) return null
shellRenders == shellMounted /\ Truthy(shellUser)

\* shellOutput without the early return of null
shellOutput_WithoutUserTest ==
  IF shellMounted
    THEN Some([navItems |-> IF Truthy(shellUser)
                              THEN filteredNavItems(shellUser[1])
                              ELSE << >>,
               children |-> TRUE])
    ELSE null

\* What the mounted shell renders: null without a user (55-57), otherwise
\* the panels built from filteredNavItems and, in <main>, its children (292).
shellOutput ==
  IF shellMounted
    THEN IF ~Truthy(shellUser)
           THEN null
           ELSE Some([navItems |-> filteredNavItems(shellUser[1]),
                      children |-> TRUE])
    ELSE null

outsideShell == << wizardVars, orderVars, folderRevisionVars, catchVars >>

InitShell ==
  /\ shellMounted = FALSE
  /\ shellUser = null
  /\ mobileMenuOpen = FALSE
  /\ effectPending = FALSE
  /\ shellToasts = <<>>

\* A page wrapped by the shell is routed to: the component function runs
\* (part_000 29-34) and its first render is committed.
ShellMount(route) ==
  /\ ~shellMounted
  /\ location' = route
  /\ shellMounted' = TRUE
  /\ shellUser' = getCurrentUser
  /\ mobileMenuOpen' = FALSE
  /\ effectPending' = TRUE
  /\ shellToasts' = <<>>
  /\ UNCHANGED cachedUser
  /\ UNCHANGED outsideShell

mountEffect_NeverRedirects ==
  /\ effectPending
  /\ effectPending' = FALSE
  /\ shellUser' = getCurrentUser
  /\ shellToasts' = <<>>
  /\ UNCHANGED << shellMounted, mobileMenuOpen, location, cachedUser >>
  /\ UNCHANGED outsideShell

\* The mount effect (36-44), flushed before any other event is handled.
mountEffect ==
  /\ effectPending
  /\ effectPending' = FALSE
  /\ LET currentUser == getCurrentUser
     IN  IF ~Truthy(currentUser)
           THEN /\ location' = "/login"
                /\ shellMounted' = FALSE
                /\ shellUser' = null
           ELSE /\ shellUser' = currentUser
                /\ UNCHANGED << shellMounted, location >>
  /\ shellToasts' = <<>>
  /\ UNCHANGED << mobileMenuOpen, cachedUser >>
  /\ UNCHANGED outsideShell

\* Click on one of the three "Logout" buttons (157, 192, 253).
handleLogout ==
  /\ shellRenders
  /\ ~effectPending
  /\ logoutUser
  /\ shellToasts' = << "Logged out" >>
  /\ location' = "/login"
  /\ shellMounted' = FALSE
  /\ shellUser' = null
  /\ mobileMenuOpen' = FALSE
  /\ UNCHANGED effectPending
  /\ UNCHANGED outsideShell

\* Click on an item of the side panel (123) or of the bottom bar (275).
navigateTo(i) ==
  /\ shellRenders
  /\ ~effectPending
  /\ i \in 1..Len(filteredNavItems(shellUser[1]))
  /\ location' = filteredNavItems(shellUser[1])[i].href
  /\ shellToasts' = <<>>
  /\ UNCHANGED << shellMounted, shellUser, mobileMenuOpen, effectPending,
                  cachedUser >>
  /\ UNCHANGED outsideShell

\* Click on an item of the open overlay menu (227-230).
overlayNavigateTo(i) ==
  /\ shellRenders
  /\ ~effectPending
  /\ mobileMenuOpen
  /\ i \in 1..Len(filteredNavItems(shellUser[1]))
  /\ location' = filteredNavItems(shellUser[1])[i].href
  /\ mobileMenuOpen' = FALSE
  /\ shellToasts' = <<>>
  /\ UNCHANGED << shellMounted, shellUser, effectPending, cachedUser >>
  /\ UNCHANGED outsideShell

\* Click on the menu button of the top bar (172).
toggleMobileMenu ==
  /\ shellRenders
  /\ ~effectPending
  /\ mobileMenuOpen' = ~mobileMenuOpen
  /\ shellToasts' = <<>>
  /\ UNCHANGED << shellMounted, shellUser, effectPending, cachedUser,
                  location >>
  /\ UNCHANGED outsideShell

\* Click on the backdrop of the open overlay menu (203).
closeMobileMenu ==
  /\ shellRenders
  /\ ~effectPending
  /\ mobileMenuOpen
  /\ mobileMenuOpen' = FALSE
  /\ shellToasts' = <<>>
  /\ UNCHANGED << shellMounted, shellUser, effectPending, cachedUser,
                  location >>
  /\ UNCHANGED outsideShell

\* Another layer (the login page, in this tab or in another one) caches a
\* user.
loginCachesUser(user) ==
  /\ ~effectPending
  /\ cachedUser' = Some(user)
  /\ shellToasts' = <<>>
  /\ UNCHANGED << shellMounted, shellUser, mobileMenuOpen, effectPending,
                  location >>
  /\ UNCHANGED outsideShell

Users ==
  { [name |-> <<"A", "n">>, role |-> "user"],
    [name |-> <<"B", "o">>, role |-> "admin"],
    [name |-> <<"B", "o", " ", "L", "i">>, role |-> "admin"],
    [name |-> <<>>, role |-> "user"] }

NextShell ==
  \/ \E route \in ShellRoutes : ShellMount(route)
  \/ mountEffect
  \/ handleLogout
  \/ \E i \in 1..Len(navItems) : navigateTo(i)
  \/ \E i \in 1..Len(navItems) : overlayNavigateTo(i)
  \/ toggleMobileMenu
  \/ closeMobileMenu
  \/ \E user \in Users : loginCachesUser(user)

(***************************************************************************)
(* Folder-upload revision of the wizard: src/unnamed/part_001, 1-618.      *)
(*                                                                         *)
(* A file value carries, besides name, size and type, its                  *)
(* webkitRelativePath and the properties handleFileChange defines on a     *)
(* virtual folder (isFolder, fileCount, files).  The type check and the    *)
(* size check (109-144) are those of the wizard (isValidType,              *)
(* exceedsMaxSize).                                                        *)
(***************************************************************************)
directoryType ==
  <<"a","p","p","l","i","c","a","t","i","o","n","/","x","-","d","i","r","e","c","t","o","r","y">>

jpegType == <<"i","m","a","g","e","/","j","p","e","g">>

PickedFile(name, size, type, webkitRelativePath) ==
  [name |-> name, size |-> size, type |-> type,
   webkitRelativePath |-> webkitRelativePath,
   isFolder |-> FALSE, fileCount |-> 0, files |-> <<>>]

RECURSIVE totalSize(_)
totalSize(files) ==
  IF files = <<>> THEN 0 ELSE files[1].size + totalSize(Tail(files))

\* customFolderFile with the size of the first file for the size
customFolderFile_FirstFileSize(files) ==
  [name |-> split(files[1].webkitRelativePath, "/")[1],
   size |-> files[1].size,
   type |-> directoryType,
   webkitRelativePath |-> <<>>,
   isFolder |-> TRUE,
   fileCount |-> Len(files),
   files |-> files]

\* The virtual folder file of handleFileChange (45-66).
customFolderFile(files) ==
  [name |-> split(files[1].webkitRelativePath, "/")[1],
   size |-> totalSize(files),
   type |-> directoryType,
   webkitRelativePath |-> <<>>,
   isFolder |-> TRUE,
   fileCount |-> Len(files),
   files |-> files]

\* isFolder of validateAndSetFile (78-82) and of uploadToGoogleDrive (192-194)
isFolder(f) ==
  f.isFolder \/ ((f.size = 0 /\ f.type = <<>>) \/ f.type = directoryType)

maxFilesLimit == 20

maxFolderFileSize == 52428800

\* The albumFiles parts uploadToGoogleDrive appends for a folder (222-256).
RECURSIVE folderParts(_, _, _)
folderParts(folder, i, maxFiles) ==
  IF i > maxFiles THEN <<>>
  ELSE LET f == folder.files[i]
           rest == folderParts(folder, i + 1, maxFiles)
       IN  IF f.size > maxFolderFileSize THEN rest
           ELSE << [name |-> IF Truthy(f.webkitRelativePath)
                               THEN f.webkitRelativePath
                               ELSE folder.name \o <<"/">> \o f.name,
                    size |-> f.size, type |-> f.type] >> \o rest

outsideFolderRevision ==
  << wizardVars, sessionVars, orderVars, shellVars, catchVars >>

fr_attemptState ==
  << fr_request, fr_cancelled, fr_timeoutArmed, fr_progressLoaded,
     fr_progressTotal >>

fr_ContinuationPending == fr_request # null /\ fr_cancelled

InitFolderRevision ==
  /\ fr_albumName = <<>>
  /\ fr_file = null
  /\ fr_isDragging = FALSE
  /\ fr_isUploading = FALSE
  /\ fr_uploadProgress = 0
  /\ fr_useGoogleDrive = FALSE
  /\ fr_driveFileId = null
  /\ fr_uploadMode = "file"
  /\ fr_request = null
  /\ fr_cancelled = FALSE
  /\ fr_timeoutArmed = FALSE
  /\ fr_progressLoaded = 0
  /\ fr_progressTotal = 0
  /\ fr_uploadedCalls = <<>>
  /\ fr_toasts = <<>>

fr_validationToast(selectedFile) ==
  IF isFolder(selectedFile) THEN "Folder Selected"
  ELSE IF ~isValidType(selectedFile) THEN "Invalid file type"
  ELSE IF exceedsMaxSize(selectedFile) THEN "File too large"
  ELSE "File Selected"

\* validateAndSetFile (76-162)
fr_validateAndSetFile(selectedFile) ==
  /\ fr_toasts' = << fr_validationToast(selectedFile) >>
  /\ IF isFolder(selectedFile)
       THEN /\ fr_file' = Some(selectedFile)
            /\ fr_useGoogleDrive' = TRUE
            /\ fr_albumName' = IF ~Truthy(fr_albumName) THEN selectedFile.name
                               ELSE fr_albumName
       ELSE IF ~isValidType(selectedFile) \/ exceedsMaxSize(selectedFile)
         THEN UNCHANGED << fr_file, fr_useGoogleDrive, fr_albumName >>
         ELSE /\ fr_file' = Some(selectedFile)
              /\ fr_useGoogleDrive' = TRUE
              /\ fr_albumName' = IF ~Truthy(fr_albumName)
                                   THEN suggestedAlbumName(selectedFile)
                                   ELSE fr_albumName

\* onChange of the album-name input (461)
fr_setAlbumName(value) ==
  /\ ~fr_ContinuationPending
  /\ fr_albumName' = value
  /\ fr_toasts' = <<>>
  /\ fr_uploadedCalls' = <<>>
  /\ UNCHANGED << fr_file, fr_isDragging, fr_isUploading, fr_uploadProgress,
                  fr_useGoogleDrive, fr_driveFileId, fr_uploadMode >>
  /\ UNCHANGED fr_attemptState
  /\ UNCHANGED outsideFolderRevision

\* The two mode buttons (476, 488)
fr_setUploadMode(mode) ==
  /\ ~fr_ContinuationPending
  /\ fr_uploadMode' = mode
  /\ fr_toasts' = <<>>
  /\ fr_uploadedCalls' = <<>>
  /\ UNCHANGED << fr_albumName, fr_file, fr_isDragging, fr_isUploading,
                  fr_uploadProgress, fr_useGoogleDrive, fr_driveFileId >>
  /\ UNCHANGED fr_attemptState
  /\ UNCHANGED outsideFolderRevision

\* handleFileChange (39-74).  The drop zone opens the file input in file
\* mode and the directory input in folder mode (446-452): the first delivers
\* one file without a relative path, the second the files of a directory
\* with their relative paths.
fr_handleFileChange(files) ==
  /\ ~fr_ContinuationPending
  /\ Len(files) > 0
  /\ IF fr_uploadMode = "file"
       THEN Len(files) = 1 /\ ~Truthy(files[1].webkitRelativePath)
       ELSE \A i \in 1..Len(files) : Truthy(files[i].webkitRelativePath)
  /\ IF Len(files) > 1 /\ Truthy(files[1].webkitRelativePath)
       THEN fr_validateAndSetFile(customFolderFile(files))
       ELSE fr_validateAndSetFile(files[1])
  /\ fr_uploadedCalls' = <<>>
  /\ UNCHANGED << fr_isDragging, fr_isUploading, fr_uploadProgress,
                  fr_driveFileId, fr_uploadMode >>
  /\ UNCHANGED fr_attemptState
  /\ UNCHANGED outsideFolderRevision

fr_handleDragOver ==
  /\ ~fr_ContinuationPending
  /\ fr_isDragging' = TRUE
  /\ fr_toasts' = <<>>
  /\ fr_uploadedCalls' = <<>>
  /\ UNCHANGED << fr_albumName, fr_file, fr_isUploading, fr_uploadProgress,
                  fr_useGoogleDrive, fr_driveFileId, fr_uploadMode >>
  /\ UNCHANGED fr_attemptState
  /\ UNCHANGED outsideFolderRevision

fr_handleDragLeave ==
  /\ ~fr_ContinuationPending
  /\ fr_isDragging' = FALSE
  /\ fr_toasts' = <<>>
  /\ fr_uploadedCalls' = <<>>
  /\ UNCHANGED << fr_albumName, fr_file, fr_isUploading, fr_uploadProgress,
                  fr_useGoogleDrive, fr_driveFileId, fr_uploadMode >>
  /\ UNCHANGED fr_attemptState
  /\ UNCHANGED outsideFolderRevision

\* handleDrop (173-181)
fr_handleDrop(droppedFile) ==
  /\ ~fr_ContinuationPending
  /\ fr_isDragging' = FALSE
  /\ fr_validateAndSetFile(droppedFile)
  /\ fr_uploadedCalls' = <<>>
  /\ UNCHANGED << fr_isUploading, fr_uploadProgress, fr_driveFileId,
                  fr_uploadMode >>
  /\ UNCHANGED fr_attemptState
  /\ UNCHANGED outsideFolderRevision

\* The remove button of the drop zone (559-562): clearFile (430-439)
fr_clearFile ==
  /\ ~fr_ContinuationPending
  /\ fr_file # null
  /\ fr_file' = null
  /\ fr_useGoogleDrive' = FALSE
  /\ fr_toasts' = <<>>
  /\ fr_uploadedCalls' = <<>>
  /\ UNCHANGED << fr_albumName, fr_isDragging, fr_isUploading,
                  fr_uploadProgress, fr_driveFileId, fr_uploadMode >>
  /\ UNCHANGED fr_attemptState
  /\ UNCHANGED outsideFolderRevision

\* disabled={!file || !albumName.trim() || isUploading} (609)
fr_submitDisabled ==
  ~Truthy(fr_file) \/ ~Truthy(trim(fr_albumName)) \/ fr_isUploading

\* The form data uploadToGoogleDrive assembles (189-294), or null when it
\* returns before the POST (264-274, 282-291).
fr_formData(fileToUpload, name) ==
  IF isFolder(fileToUpload)
    THEN IF Len(fileToUpload.files) > 0
           THEN Some([isFolder |-> <<"t","r","u","e">>,
                      folderName |-> fileToUpload.name,
                      albumFiles |-> folderParts(fileToUpload, 1,
                                       Min(Len(fileToUpload.files), maxFilesLimit)),
                      albumName |-> name])
           ELSE null
    ELSE IF fileToUpload.size > 0
           THEN Some([isFolder |-> <<>>,
                      folderName |-> <<>>,
                      albumFiles |-> << [name |-> fileToUpload.name,
                                         size |-> fileToUpload.size,
                                         type |-> fileToUpload.type] >>,
                      albumName |-> name])
           ELSE null

\* Click on the submit button: handleSubmit (416-428), then
\* uploadToGoogleDrive up to its await of the POST.
fr_handleSubmit(token, total) ==
  /\ ~fr_ContinuationPending
  /\ ~fr_submitDisabled
  /\ LET fileToUpload == fr_file[1]
         body == fr_formData(fileToUpload, fr_albumName)
     IN  IF body # null
           THEN /\ fr_isUploading' = TRUE
                /\ fr_request' = Some([formData |-> body[1],
                                       Authorization |-> authorizationHeader(token),
                                       fileToUpload |-> fileToUpload])
                /\ fr_cancelled' = FALSE
                /\ fr_timeoutArmed' = TRUE
                /\ fr_progressLoaded' = 0
                /\ fr_progressTotal' = total
                /\ fr_toasts' =
                     IF isFolder(fileToUpload)
                        /\ Min(Len(fileToUpload.files), maxFilesLimit)
                             < Len(fileToUpload.files)
                       THEN << "Large Folder Detected" >>
                       ELSE <<>>
           ELSE /\ fr_toasts' = << "Upload Error" >>
                /\ fr_isUploading' = FALSE
                /\ UNCHANGED fr_attemptState
  /\ fr_uploadProgress' = 0
  /\ fr_uploadedCalls' = <<>>
  /\ UNCHANGED << fr_albumName, fr_file, fr_isDragging, fr_useGoogleDrive,
                  fr_driveFileId, fr_uploadMode >>
  /\ UNCHANGED outsideFolderRevision

\* onUploadProgress (324-329)
fr_onUploadProgress(loaded) ==
  /\ fr_request # null
  /\ ~fr_cancelled
  /\ loaded >= fr_progressLoaded
  /\ loaded <= fr_progressTotal
  /\ fr_progressLoaded' = loaded
  /\ fr_uploadProgress' = IF fr_progressTotal # 0
                            THEN MathRound(loaded * 100, fr_progressTotal)
                            ELSE fr_uploadProgress
  /\ fr_toasts' = <<>>
  /\ fr_uploadedCalls' = <<>>
  /\ UNCHANGED << fr_albumName, fr_file, fr_isDragging, fr_isUploading,
                  fr_useGoogleDrive, fr_driveFileId, fr_uploadMode,
                  fr_request, fr_cancelled, fr_timeoutArmed, fr_progressTotal >>
  /\ UNCHANGED outsideFolderRevision

\* The end of every attempt: clearTimeout (333, 364) and finally (410-413).
fr_attemptEnds ==
  /\ fr_isUploading' = FALSE
  /\ fr_uploadProgress' = 0
  /\ fr_request' = null
  /\ fr_cancelled' = FALSE
  /\ fr_timeoutArmed' = FALSE
  /\ fr_progressLoaded' = 0
  /\ fr_progressTotal' = 0

\* The classification of the outer catch (367-406).
fr_errorToast(error) ==
  IF error.isAxios
    THEN IF error.code = "ERR_NETWORK" THEN "Network Error"
         ELSE IF error.code = "ECONNABORTED" \/ includes(error.message, timeoutWord)
           THEN "Upload Timeout"
         ELSE IF error.status = 413 THEN "Upload Too Large"
         ELSE "Upload Failed"
    ELSE "Upload Failed"

\* The POST resolved (336-361).
fr_uploadResponds(response) ==
  /\ fr_request # null
  /\ ~fr_cancelled
  /\ IF response.success
       THEN /\ fr_driveFileId' = IF Truthy(response.id) THEN response.id
                                 ELSE fr_driveFileId
            /\ fr_uploadedCalls' =
                 << [albumName |-> fr_request[1].formData.albumName,
                     file |-> fr_request[1].fileToUpload,
                     driveFileId |-> response.id] >>
            /\ fr_toasts' = << "Upload Successful" >>
       ELSE /\ fr_uploadedCalls' = <<>>
            /\ fr_toasts' = << fr_errorToast(failureFlagError) >>
            /\ UNCHANGED fr_driveFileId
  /\ fr_attemptEnds
  /\ UNCHANGED << fr_albumName, fr_file, fr_isDragging, fr_useGoogleDrive,
                  fr_uploadMode >>
  /\ UNCHANGED outsideFolderRevision

\* The POST was rejected by the HTTP client.
fr_uploadRejects(error) ==
  /\ fr_request # null
  /\ ~fr_cancelled
  /\ fr_toasts' = << fr_errorToast(error) >>
  /\ fr_uploadedCalls' = <<>>
  /\ fr_attemptEnds
  /\ UNCHANGED << fr_albumName, fr_file, fr_isDragging, fr_useGoogleDrive,
                  fr_driveFileId, fr_uploadMode >>
  /\ UNCHANGED outsideFolderRevision

\* The 5-minute timer fires (307-314).
fr_uploadTimeout ==
  /\ fr_request # null
  /\ fr_timeoutArmed
  /\ ~fr_cancelled
  /\ fr_cancelled' = TRUE
  /\ fr_timeoutArmed' = FALSE
  /\ fr_toasts' = << "Upload Timeout" >>
  /\ fr_uploadedCalls' = <<>>
  /\ UNCHANGED << fr_albumName, fr_file, fr_isDragging, fr_isUploading,
                  fr_uploadProgress, fr_useGoogleDrive, fr_driveFileId,
                  fr_uploadMode, fr_request, fr_progressLoaded,
                  fr_progressTotal >>
  /\ UNCHANGED outsideFolderRevision

\* The cancelled POST's rejection reaches the catch blocks and finally.
fr_uploadCancelled(error) ==
  /\ fr_request # null
  /\ fr_cancelled
  /\ fr_toasts' = << fr_errorToast(error) >>
  /\ fr_uploadedCalls' = <<>>
  /\ fr_attemptEnds
  /\ UNCHANGED << fr_albumName, fr_file, fr_isDragging, fr_useGoogleDrive,
                  fr_driveFileId, fr_uploadMode >>
  /\ UNCHANGED outsideFolderRevision

\* What the file input, the directory input and a drop can deliver.
albumPath(fileName) == <<"d", "/">> \o fileName

SingleFiles ==
  { << PickedFile(<<"A",".","Z","I","P">>, maxSize, <<>>, <<>>) >>,
    << PickedFile(<<"A",".","Z","I","P">>, maxSize + 1, <<>>, <<>>) >>,
    << PickedFile(<<"b",".","e","x","e">>, 1024, exeType, <<>>) >> }

Directories ==
  { << PickedFile(<<"a",".","j","p","g">>, 629145600, jpegType,
                  albumPath(<<"a",".","j","p","g">>)),
       PickedFile(<<"b",".","j","p","g">>, 629145600, jpegType,
                  albumPath(<<"b",".","j","p","g">>)) >>,
    << PickedFile(<<"a",".","j","p","g">>, 1024, jpegType,
                  albumPath(<<"a",".","j","p","g">>)),
       PickedFile(<<"b",".","e","x","e">>, 1024, exeType,
                  albumPath(<<"b",".","e","x","e">>)) >>,
    << PickedFile(<<"b",".","e","x","e">>, 1024, exeType,
                  albumPath(<<"b",".","e","x","e">>)) >> }

DroppedFiles ==
  { PickedFile(<<"A",".","Z","I","P">>, maxSize, <<>>, <<>>),
    PickedFile(<<"d">>, 0, <<>>, <<>>) }

NextFolderRevision ==
  \/ \E value \in { <<>>, <<"w">> } : fr_setAlbumName(value)
  \/ \E mode \in { "file", "folder" } : fr_setUploadMode(mode)
  \/ \E files \in SingleFiles \cup Directories : fr_handleFileChange(files)
  \/ fr_handleDragOver
  \/ fr_handleDragLeave
  \/ \E droppedFile \in DroppedFiles : fr_handleDrop(droppedFile)
  \/ fr_clearFile
  \/ \E token \in Tokens, total \in 0..1 : fr_handleSubmit(token, total)
  \/ fr_onUploadProgress(1)
  \/ \E response \in Responses : fr_uploadResponds(response)
  \/ \E error \in HttpErrors : fr_uploadRejects(error)
  \/ fr_uploadTimeout
  \/ \E error \in CancelErrors : fr_uploadCancelled(error)

(***************************************************************************)
(* The outer catch of uploadToGoogleDrive as a function of the error it    *)
(* receives (AlbumUpload.tsx 327-376, part_001 367-406).                   *)
(***************************************************************************)
\* What can reach the catch: errors of the HTTP client (isAxios) and other
\* exceptions, with every combination of code, response status (0: no
\* response) and message.
ThrownErrors ==
  { [isAxios |-> a, code |-> c, status |-> st, message |-> msg] :
      a \in BOOLEAN,
      c \in { "ERR_NETWORK", "ECONNABORTED", "ERR_BAD_RESPONSE", "ERR_CANCELED", "" },
      st \in { 0, 400, 413, 500 },
      msg \in { <<"t","i","m","e","o","u","t"," ","o","f"," ","5","m","s">>,
                <<"R","e","q","u","e","s","t"," ","T","i","m","e","o","u","t">>,
                <<"f","a","i","l","e","d">> } }

InitCatch ==
  /\ thrown = null
  /\ classified = ""
  /\ fr_classified = ""

\* The catch block receives an error and shows its notification.
catchError(error) ==
  /\ thrown' = Some(error)
  /\ classified' = errorToast(error)
  /\ fr_classified' = fr_errorToast(error)
  /\ UNCHANGED << wizardVars, sessionVars, orderVars, shellVars,
                  folderRevisionVars >>

(***************************************************************************)
(* Specifications.                                                         *)
(***************************************************************************)
\* The wizard alone.
InitWizardPage ==
  /\ InitWizard /\ InitOrder /\ InitShell /\ InitFolderRevision /\ InitCatch
  /\ cachedUser = Some([name |-> <<"A", "n">>, role |-> "user"])
  /\ location = "/dashboard"

\* File selection in full, with one token and unreported totals.
NextSelect ==
  NextWizardOn(Files, TypedNames, Folders, ZipSizes, { <<"t","o","k">> }, { 0 },
               HttpErrors)

SpecSelect == InitWizardPage /\ [][NextSelect]_vars

\* Upload transport in full, with one allowed non-empty file, one allowed
\* empty file and archives that exceed the ceiling.
TransportFiles ==
  { File(<<"A",".","Z","I","P">>, maxSize, <<>>),
    File(<<"n","o","e","x","t">>, 0, pngType) }

NextTransport ==
  NextWizardOn(TransportFiles, { <<>>, <<"w">> }, Folders, { maxSize + 1 },
               Tokens, 0..MaxTotal, HttpErrors)

SpecTransport == InitWizardPage /\ [][NextTransport]_vars

OrderPropsSet ==
  { [albumName |-> <<"w">>,
     albumFile |-> File(<<"A", ".", "Z", "I", "P">>, maxSize, <<>>),
     driveFileId |-> id] : id \in { null, <<"i", "d">> } }

Percentages == { 0, 1, 50, 91, 100 }

\* The order form alone, with or without a cached user.
InitOrderPage ==
  /\ InitWizard /\ InitOrder /\ InitShell /\ InitFolderRevision /\ InitCatch
  /\ cachedUser \in { null, Some([name |-> <<"A", "n">>, role |-> "user"]) }
  /\ location = "/dashboard"

NextOrder == NextOrderOn(OrderPropsSet, { "pageType", "transparent" }, Percentages)

SpecOrder == InitOrderPage /\ [][NextOrder]_vars

\* The shell alone; a user is logged in at the start.
InitShellPage ==
  /\ InitWizard /\ InitOrder /\ InitShell /\ InitFolderRevision /\ InitCatch
  /\ cachedUser \in { Some(user) : user \in Users }
  /\ location = "/login"

SpecShell == InitShellPage /\ [][NextShell]_vars

\* The order form with its timers: a timer set by setTimeout fires once its
\* delay has passed, whatever else happens on the page (it is never cleared).
SpecOrderTimers == SpecOrder /\ WF_vars(navigateToOrders)

\* Values of metadata.percent, in tenths of a percent.
GeneratorPercents == { 5, 505, 1000 }

\* Largest number of interval timers left set by ended conversions when a
\* new conversion is started.
MaxLeaked == 1

\* The folder conversion with its timers and the generator's callback.
NextConvert ==
  \/ \E value \in { <<>>, <<"w">> } : SetAlbumName(value)
  \/ \E f \in TransportFiles : handleFileChange(f)
  \/ clearFile
  \/ \E fileList \in Folders : handleFolderSelect(fileList)
  \/ clearFolder
  \/ Cardinality(leakedIntervals) < MaxLeaked /\ convertFolderToZip
  \/ progressIntervalFires
  \/ leakedIntervalFires
  \/ \E percent \in GeneratorPercents : generatorProgress(percent)
  \/ \E zipSize \in ZipSizes : convertFolderToZipDone(zipSize)
  \/ convertFolderToZipThrows

SpecConvert == InitWizardPage /\ [][NextConvert]_vars

\* The classification of errors alone.
SpecCatch ==
  InitWizardPage /\ [][\E error \in ThrownErrors : catchError(error)]_vars

\* The folder-upload revision alone.
SpecFolder == InitWizardPage /\ [][NextFolderRevision]_vars

\* The wizard and the order form on one page: the page hands the arguments
\* of onAlbumUploaded to the order form as its props.  The drop zone and the
\* folder conversion, which only change what is selected, are exercised by
\* SpecSelect and SpecTransport and left out here.
orderPropsOf(call) ==
  [albumName |-> call.albumName, albumFile |-> call.file,
   driveFileId |-> call.driveFileId]

OrderFormMountsOnUpload ==
  /\ uploadedCalls # <<>>
  /\ OrderFormMount(orderPropsOf(uploadedCalls[1]))

NextSubmissions ==
  \/ \E value \in { <<>>, <<"w">> } : SetAlbumName(value)
  \/ \E f \in TransportFiles : handleFileChange(f)
  \/ clearFile
  \/ \E token \in Tokens : handleSubmit(token, 1)
  \/ onUploadProgress(1)
  \/ \E response \in Responses : uploadResponds(response)
  \/ \E error \in HttpErrors : uploadRejects(error)
  \/ uploadTimeout
  \/ \E error \in CancelErrors : uploadCancelled(error)
  \/ OrderFormMountsOnUpload
  \/ \E value \in BOOLEAN : handleChange("transparent", value)
  \/ OrderForm_handleSubmit
  \/ OrderForm_onProgress(50)
  \/ createOrderResolves
  \/ createOrderRejects
  \/ navigateToOrders

SpecSubmissions == InitWizardPage /\ [][NextSubmissions]_vars

(***************************************************************************)
(* Properties of the upload wizard.                                        *)
(***************************************************************************)
\* A file the validation policy disallows: its lower-cased name ends with no
\* allowed extension and its MIME type contains no allowed MIME type.
Disallowed(f) ==
  /\ \A e \in 1..Len(validExtensions) :
       ~endsWith(toLowerCase(f.name), validExtensions[e])
  /\ \A m \in 1..Len(validMimeTypes) : ~includes(f.type, validMimeTypes[m])

\* C1: a file with a disallowed extension and MIME type, offered through the
\* file input, a drop or the folder-to-ZIP conversion, never becomes the
\* selected file, and no upload request (nor onAlbumUploaded call) carries it.
C1_DisallowedFileNeverSelectedNorUploaded ==
  /\ file # null => ~Disallowed(file[1])
  /\ request # null => ~Disallowed(request[1].albumFiles)
  /\ \A i \in 1..Len(uploadedCalls) : ~Disallowed(uploadedCalls[i].file)

\* C1 witness: a disallowed file has just been offered and refused while an
\* earlier, allowed selection is being uploaded.
C1_Witness ==
  /\ toasts = << "Invalid file type" >>
  /\ file # null
  /\ request # null

\* C2: a file larger than the 1 GB ceiling never becomes the selected file,
\* so no POST to the upload endpoint carries it.
C2_OversizedFileNeverSelectedNorUploaded ==
  /\ file # null => file[1].size <= 1024 * 1024 * 1024
  /\ request # null => request[1].albumFiles.size <= 1024 * 1024 * 1024

\* C2 witness: an oversized file (picked, dropped or produced by the
\* conversion) has just been refused, and a file of exactly 1 GB is selected.
C2_Witness ==
  /\ toasts # <<>>
  /\ toasts[1] = "File too large"
  /\ file # null
  /\ file[1].size = 1024 * 1024 * 1024

\* C5: within one upload attempt (isUploading true before and after the
\* step) uploadProgress never decreases, and it always lies in [0, 100].
C5_UploadProgressMonotoneAndBounded ==
  /\ [](uploadProgress >= 0 /\ uploadProgress <= 100)
  /\ [][(isUploading /\ isUploading') => uploadProgress' >= uploadProgress]_vars

\* C5 witness: an attempt is under way and a progress event has moved the
\* bar strictly between its ends.
C5_Witness ==
  /\ isUploading
  /\ request # null
  /\ uploadProgress > 0
  /\ uploadProgress < 100

C10_AtMostOnePostPerSubmit ==
  /\ posts <= 1
  /\ inFlight <= posts
  /\ request # null => posts = 1

\* C10 witness: an attempt has failed (an error notification, nothing in
\* flight) and its single POST is the only one of that click.
C10_Witness ==
  /\ posts = 1
  /\ request = null
  /\ inFlight = 0
  /\ toasts \in { << "Network Error" >>, << "Upload Failed" >>,
                  << "Server Error" >>, << "Upload Too Large" >> }

(***************************************************************************)
(* Properties of the order form.                                           *)
(***************************************************************************)
\* C4: every order-creation request carries the field driveFileId (with the
\* identifier the form was given) and no field file when the form was given
\* a non-empty identifier, the field file (the album file) and no field
\* driveFileId otherwise: exactly one of the two is present.
C4_RequestCarriesIdOrFile ==
  orderRequest # null =>
    LET fd == orderRequest[1].formData
        names == DOMAIN fd
        props == orderProps[1]
    IN  /\ props.driveFileId # <<>> =>
             /\ "driveFileId" \in names
             /\ fd["driveFileId"] = props.driveFileId
             /\ "file" \notin names
        /\ props.driveFileId = <<>> =>
             /\ "file" \in names
             /\ fd["file"] = props.albumFile
             /\ "driveFileId" \notin names
        /\ ("driveFileId" \in names) # ("file" \in names)

\* C4 witness: a request assembled from a form that was given an identifier
\* is in flight.
C4_Witness ==
  /\ orderRequest # null
  /\ orderProps[1].driveFileId # <<>>
  /\ "driveFileId" \in DOMAIN orderRequest[1].formData

\* C6: within one order submission (a request is in flight before the step)
\* uploadProgress never decreases and stays within [0, 100], that is
\* [0, 10000] hundredths.
C6_OrderProgressMonotoneAndBounded ==
  [][orderRequest # null =>
       /\ orderUploadProgress' >= orderUploadProgress
       /\ orderUploadProgress' >= 0
       /\ orderUploadProgress' <= 10000]_vars

(***************************************************************************)
(* Properties of the navigation shell.                                     *)
(***************************************************************************)
\* C8: the step that shows "Logged out" leaves no cached user and the
\* location /login; only another layer's login makes the cached user
\* non-null again; and whenever the shell mounts with no cached user it
\* renders nothing and its mount effect redirects to /login.
C8_LogoutClearsSessionAndLaterMountsRedirect ==
  /\ [](shellMounted /\ effectPending /\ cachedUser = <<>> => ~shellRenders)
  /\ [][/\ (shellToasts' = << "Logged out" >> /\ shellToasts # shellToasts')
             => (cachedUser' = <<>> /\ location' = "/login")
        /\ (cachedUser = <<>> /\ cachedUser' # <<>>)
             => UNCHANGED << shellMounted, shellUser, location >>
        /\ (effectPending /\ cachedUser = <<>>)
             => (~effectPending' /\ location' = "/login" /\ ~shellRenders')]_vars

\* C8 witness: after a logout (the only step that clears the cache) the
\* shell has been mounted again, found no cached user and renders nothing.
C8_Witness ==
  /\ shellMounted
  /\ effectPending
  /\ cachedUser = <<>>
  /\ shellUser = <<>>
  /\ location # "/login"

(***************************************************************************)
(* Properties of the two components together.                              *)
(***************************************************************************)
\* C9: neither the wizard nor the order form ever has two requests
\* outstanding, and while one is outstanding the component's submit control
\* is disabled.
C9_AtMostOneSubmissionInFlight ==
  /\ inFlight <= 1
  /\ orderInFlight <= 1
  /\ inFlight > 0 => (file = <<>> \/ trim(albumName) = <<>> \/ isUploading)
  /\ orderInFlight > 0 => (loading \/ submitting)

\* C9 witness: both components have a request outstanding at once, one
\* each.
C9_Witness ==
  /\ inFlight = 1
  /\ orderInFlight = 1

(***************************************************************************)
(* Properties of the folder-upload revision.                               *)
(***************************************************************************)
\* C3: a folder whose aggregate size exceeds 1 GB, or which holds a file of
\* a disallowed type, never becomes the selected file of the folder-upload
\* revision, and no upload request carries a file of a disallowed type.
C3_FolderOverCeilingOrDisallowedRejected ==
  /\ fr_file # null =>
       /\ fr_file[1].size <= 1024 * 1024 * 1024
       /\ \A i \in 1..Len(fr_file[1].files) : ~Disallowed(fr_file[1].files[i])
  /\ fr_request # null =>
       \A i \in 1..Len(fr_request[1].formData.albumFiles) :
         ~Disallowed(fr_request[1].formData.albumFiles[i])

(***************************************************************************)
(* Failure handling of the upload wizard.                                  *)
(***************************************************************************)
\* A step that ends an attempt in failure: the request in flight settles
\* without a call of onAlbumUploaded, or uploadToGoogleDrive refuses an empty
\* file before the POST.
WizardAttemptFails ==
  \/ request # null /\ request' = null /\ uploadedCalls' = <<>>
  \/ request = null /\ request' = null /\ toasts' = << "Upload Error" >>

\* C11 as stated: every failed attempt leaves no file selected, isUploading
\* false and uploadProgress 0.
C11_FailureResetsToUnselected ==
  [][WizardAttemptFails =>
       (file' = <<>> /\ ~isUploading' /\ uploadProgress' = 0)]_vars

\* C11 amended: every failed attempt leaves isUploading false and
\* uploadProgress 0, and leaves the selected file, the Drive flag and the
\* album name exactly as they were: the wizard does not return to the
\* unselected state.
C11_FailureKeepsSelection ==
  [][WizardAttemptFails =>
       /\ ~isUploading'
       /\ uploadProgress' = 0
       /\ file' = file
       /\ useGoogleDrive' = useGoogleDrive
       /\ albumName' = albumName]_vars

\* C11 witness: an attempt has just failed with a classified notification
\* and its file is still the selected one.
C11_Witness ==
  /\ toasts \in { << "Network Error" >>, << "Server Error" >>,
                  << "Upload Too Large" >>, << "Upload Failed" >> }
  /\ posts = 1
  /\ request = null
  /\ ~isUploading
  /\ uploadProgress = 0
  /\ file # <<>>

\* The taxonomy of upload failures: the precedence among the errors of the
\* HTTP client; every other failure is unclassified.
C12_taxonomy(error) ==
  IF error.isAxios /\ error.code = "ERR_NETWORK" THEN "Network Error"
  ELSE IF error.isAxios
          /\ (error.code = "ECONNABORTED" \/ includes(error.message, timeoutWord))
    THEN "Upload Timeout"
  ELSE IF error.isAxios /\ error.status = 413 THEN "Upload Too Large"
  ELSE IF error.isAxios /\ error.status = 500 THEN "Server Error"
  ELSE "Upload Failed"

\* C12: the wizard, in the current component and in the folder-upload
\* revision, shows for every failure reaching its catch the one class the
\* taxonomy gives it.
C12_ClassifiedByTaxonomy ==
  thrown # <<>> =>
    /\ classified = C12_taxonomy(thrown[1])
    /\ fr_classified = C12_taxonomy(thrown[1])


(***************************************************************************)
(* The caller callback of the upload wizard.                               *)
(***************************************************************************)
\* C13: onAlbumUploaded is invoked only in the step in which a request in
\* flight that was not cancelled is answered with success (the step that
\* shows 'Upload Successful' and ends the attempt), once in that step, with
\* the album name and the file of the request; its third argument, when
\* defined, is the identifier the step stores as driveFileId, and when it
\* is undefined the step stores no identifier.  A step that shows a failure
\* notification invokes nothing.
C13_CallbackOnlyOnSuccess ==
  [][/\ uploadedCalls' # <<>> =>
          /\ request # null
          /\ ~cancelled
          /\ request' = null
          /\ toasts' = << "Upload Successful" >>
          /\ Len(uploadedCalls') = 1
          /\ uploadedCalls'[1].albumName = request[1].albumName
          /\ uploadedCalls'[1].file = request[1].albumFiles
          /\ IF uploadedCalls'[1].driveFileId # <<>>
               THEN driveFileId' = uploadedCalls'[1].driveFileId
               ELSE driveFileId' = driveFileId
     /\ toasts' # <<>> /\ toasts' # << "Upload Successful" >> =>
          uploadedCalls' = <<>>]_vars

\* C13 witness: the callback has just been invoked with an identifier, and
\* the attempt has ended.
C13_Witness ==
  /\ uploadedCalls # <<>>
  /\ uploadedCalls[1].driveFileId # <<>>
  /\ uploadedCalls[1].driveFileId = driveFileId
  /\ toasts = << "Upload Successful" >>
  /\ request = null
  /\ ~isUploading


(***************************************************************************)
(* The stages of the order form.                                           *)
(***************************************************************************)
\* C14: while the order form is on the page, every change of uploadStatus
\* is one of idle -> uploading, uploading -> processing, uploading or
\* processing -> complete, uploading or processing -> error, and
\* error -> uploading; the first and the last happen only in the step that
\* starts a submission, complete only in a step that ends a request, error
\* only in a step that ends a request with the error notification.  In
\* particular complete is never left and idle is never entered.
C14_StatusFollowsStages ==
  [][(orderProps # <<>> /\ orderProps' # <<>> /\ uploadStatus' # uploadStatus) =>
       \/ /\ uploadStatus \in { "idle", "error" }
          /\ uploadStatus' = "uploading"
          /\ orderRequest = <<>> /\ orderRequest' # <<>>
       \/ /\ uploadStatus = "uploading"
          /\ uploadStatus' = "processing"
       \/ /\ uploadStatus \in { "uploading", "processing" }
          /\ uploadStatus' = "complete"
          /\ orderRequest # <<>> /\ orderRequest' = <<>>
       \/ /\ uploadStatus \in { "uploading", "processing" }
          /\ uploadStatus' = "error"
          /\ orderRequest # <<>> /\ orderRequest' = <<>>
          /\ orderToasts' = << "Error" >>]_vars

\* C14 witness: a resubmission after a failure is in flight (the status
\* went idle, uploading, error, uploading).
C14_Witness ==
  /\ orderProps # <<>>
  /\ uploadStatus = "uploading"
  /\ orderRequest # <<>>
  /\ orderRequest[1].uploadStatus = "error"


(***************************************************************************)
(* The redirect of the order form.                                         *)
(***************************************************************************)
\* C15: a request that succeeds schedules one navigation, in a step that
\* does not itself navigate; a scheduled navigation eventually happens; the
\* location changes only when a scheduled navigation fires, to /orders,
\* each scheduled navigation firing once; at most one is ever pending; a
\* step that ends a request with the error notification schedules none.
C15_SuccessNavigatesOnceAfterDelay ==
  /\ (navigateTimers > 0) ~> (navigateTimers = 0 /\ location = "/orders")
  /\ [](navigateTimers \in { 0, 1 })
  /\ [][/\ (orderRequest # <<>> /\ orderToasts' = << "Order Created" >>) =>
             /\ navigateTimers' = navigateTimers + 1
             /\ location' = location
        /\ navigateTimers' > navigateTimers =>
             /\ orderRequest # <<>> /\ orderRequest' = <<>>
             /\ orderToasts' = << "Order Created" >>
        /\ navigateTimers' < navigateTimers =>
             /\ navigateTimers' = navigateTimers - 1
             /\ location' = "/orders"
        /\ location' # location => navigateTimers' < navigateTimers
        /\ (orderRequest # <<>> /\ orderToasts' = << "Error" >>) =>
             /\ navigateTimers' = navigateTimers
             /\ location' = location]_vars

\* C15 witness: the navigation scheduled by a successful request has taken
\* place.
C15_Witness ==
  /\ location = "/orders"
  /\ navigateTimers = 0
  /\ orderProps = <<>>
  /\ orderInFlight = 0


(***************************************************************************)
(* Submission of the order form without a user.                            *)
(***************************************************************************)
\* C16: while the form on the page holds no user, no request is in flight
\* and no step issues one or changes loading, submitting, uploadStatus,
\* uploadProgress or the pending navigations; the only notification such a
\* step shows is the error notification, and the step that shows it leaves
\* the order configuration unchanged as well.
C16_SubmitWithoutUserOnlyNotifies ==
  [][(orderProps # <<>> /\ orderProps' # <<>> /\ orderUser = <<>>) =>
       /\ orderRequest = <<>> /\ orderRequest' = <<>>
       /\ orderInFlight' = orderInFlight
       /\ loading' = loading
       /\ submitting' = submitting
       /\ uploadStatus' = uploadStatus
       /\ orderUploadProgress' = orderUploadProgress
       /\ navigateTimers' = navigateTimers
       /\ orderToasts' # <<>> =>
            /\ orderToasts' = << "Error" >>
            /\ orderDetails' = orderDetails]_vars

\* C16 witness: the form without a user has been submitted after a change
\* of the configuration: the error notification is up, nothing else moved.
C16_Witness ==
  /\ orderProps # <<>>
  /\ orderUser = <<>>
  /\ orderToasts = << "Error" >>
  /\ orderDetails # initialOrderDetails
  /\ ~loading /\ ~submitting
  /\ uploadStatus = "idle"
  /\ orderUploadProgress = 0
  /\ orderRequest = <<>>


(***************************************************************************)
(* The navigation shell without a user.                                    *)
(***************************************************************************)
\* C17: a mount of the shell while no user is cached renders nothing, and
\* the step that follows it redirects to /login, still rendering nothing;
\* whenever the shell renders anything (navigation items or child content)
\* a user is held in its state.
C17_MountWithoutUserRedirectsAndRendersNothing ==
  /\ [](shellOutput # <<>> => (shellMounted /\ shellUser # <<>>))
  /\ [][/\ (~shellMounted /\ shellMounted' /\ cachedUser = <<>>) =>
             /\ shellOutput' = <<>>
             /\ effectPending'
        /\ (effectPending /\ cachedUser = <<>>) =>
             /\ location' = "/login"
             /\ shellOutput' = <<>>
             /\ ~effectPending']_vars

\* C17 witness: the shell has been mounted on a route while no user is
\* cached; its render is committed and its effect is about to run.
C17_Witness ==
  /\ shellMounted
  /\ effectPending
  /\ cachedUser = <<>>
  /\ shellUser = <<>>
  /\ shellOutput = <<>>
  /\ location # "/login"


(***************************************************************************)
(* The role-filtered navigation.                                           *)
(***************************************************************************)
\* C18: whenever the shell renders, the items it shows are the items of the
\* static list whose roles contain the role of the user it holds, in the
\* order of the list: /dashboard and /orders for role 'user', /admin and
\* /photographers for role 'admin'; and a click on an item of the side
\* panel, the overlay menu or the bottom bar leads only to one of them.
C18_NavigationFilteredByRole ==
  /\ [](shellOutput # <<>> =>
          LET shown == shellOutput[1].navItems
              role == shellUser[1].role
              hrefs == [i \in 1..Len(shown) |-> shown[i].href]
          IN  /\ \A i \in 1..Len(shown) :
                   \E j \in 1..Len(navItems) :
                      shown[i] = navItems[j] /\ role \in navItems[j].roles
              /\ \A j \in 1..Len(navItems) :
                   role \in navItems[j].roles =>
                     \E i \in 1..Len(shown) : shown[i] = navItems[j]
              /\ role = "user" => hrefs = << "/dashboard", "/orders" >>
              /\ role = "admin" => hrefs = << "/admin", "/photographers" >>)
  /\ [][(shellMounted /\ shellMounted' /\ location' # location) =>
          /\ shellUser # <<>>
          /\ shellUser[1].role = "user" =>
               location' \in { "/dashboard", "/orders" }
          /\ shellUser[1].role = "admin" =>
               location' \in { "/admin", "/photographers" }]_vars

\* C18 witness: an administrator with the overlay menu open is on
\* /photographers and is shown two items.
C18_Witness ==
  /\ shellOutput # <<>>
  /\ shellUser[1].role = "admin"
  /\ Len(shellOutput[1].navItems) = 2
  /\ mobileMenuOpen
  /\ ~effectPending
  /\ location = "/photographers"


(***************************************************************************)
(* The Authorization header of the upload request.                         *)
(***************************************************************************)
\* C19 as stated: every POST in flight bears an Authorization header made
\* of 'Bearer ' followed by the value read from local storage at submit
\* time, whatever that value is.
C19_HeaderIsBearerToken ==
  request # <<>> =>
    LET header == request[1].Authorization
    IN  /\ Len(header) >= 7
        /\ SubSeq(header, 1, 7) = <<"B","e","a","r","e","r"," ">>
        /\ SubSeq(header, 8, Len(header)) = request[1].token

\* C19 amended: a POST in flight bears an Authorization header made of
\* 'Bearer ' followed by the value read from local storage at submit time
\* when that value is a non-empty string; when nothing (or the empty
\* string) is stored, the POST is sent all the same and its Authorization
\* header is the empty string.
C19_HeaderIsBearerTokenOrEmpty ==
  request # <<>> =>
    LET header == request[1].Authorization
        token == request[1].token
    IN  IF token # <<>>
          THEN /\ Len(header) = 7 + Len(token)
               /\ SubSeq(header, 1, 7) = <<"B","e","a","r","e","r"," ">>
               /\ SubSeq(header, 8, Len(header)) = token
          ELSE header = <<>>

\* C19 witness: a POST is in flight whose header carries the stored token.
C19_Witness ==
  /\ request # <<>>
  /\ posts = 1
  /\ request[1].token = <<"t","o","k">>
  /\ request[1].Authorization = <<"B","e","a","r","e","r"," ","t","o","k">>


(***************************************************************************)
(* The virtual folder of the folder-upload revision.                       *)
(***************************************************************************)
RECURSIVE C20_SumOfSizes(_, _)
C20_SumOfSizes(files, n) ==
  IF n = 0 THEN 0 ELSE C20_SumOfSizes(files, n - 1) + files[n].size

\* C20: a value newly selected in the folder-upload revision is either a
\* virtual folder, made from a directory-picker list of more than one
\* file, whose name is the part of the first file's relative path before
\* the first '/', whose size is the sum of the sizes of the files, whose
\* fileCount is their number and whose files are that list; or it is one
\* of the picked or dropped files themselves, with no list attached.
C20_FolderWrapsSelection ==
  [][(fr_file' # fr_file /\ fr_file' # <<>>) =>
       LET f == fr_file'[1]
       IN  IF f.isFolder
             THEN /\ f.files \in Directories
                  /\ Len(f.files) > 1
                  /\ fr_uploadMode = "folder"
                  /\ LET path == f.files[1].webkitRelativePath
                     IN  /\ Len(path) > Len(f.name)
                         /\ SubSeq(path, 1, Len(f.name)) = f.name
                         /\ path[Len(f.name) + 1] = "/"
                         /\ \A i \in 1..Len(f.name) : f.name[i] # "/"
                  /\ f.size = C20_SumOfSizes(f.files, Len(f.files))
                  /\ f.fileCount = Len(f.files)
                  /\ f.type = directoryType
             ELSE /\ \/ << f >> \in SingleFiles \cup Directories
                     \/ f \in DroppedFiles
                  /\ f.files = <<>>]_vars

\* C20 witness: a directory of two files of 629145600 bytes each has been
\* picked and is held as one folder named after the directory.
C20_Witness ==
  /\ fr_file # <<>>
  /\ fr_file[1].isFolder
  /\ fr_file[1].name = <<"d">>
  /\ fr_file[1].fileCount = 2
  /\ fr_file[1].size = 1258291200
  /\ Len(fr_file[1].files) = 2


(***************************************************************************)
(* The finalizing stage of the order form.                                 *)
(***************************************************************************)
\* C21: while a request of the form is in flight and the status is
\* 'uploading', the step in which a progress event raises the reported
\* percentage above 90 sets the status to 'processing'; and the status
\* becomes 'complete' after such an event only from 'processing'.
C21_FinalizingStageBeforeComplete ==
  [][/\ (/\ orderRequest # <<>> /\ orderRequest' = orderRequest
         /\ uploadStatus = "uploading"
         /\ reportedPercentage' # reportedPercentage
         /\ reportedPercentage' > 90) => uploadStatus' = "processing"
     /\ (/\ orderRequest # <<>>
         /\ reportedPercentage > 90
         /\ uploadStatus' = "complete") => uploadStatus = "processing"]_vars


(***************************************************************************)
(* The error stage of the order form.                                      *)
(***************************************************************************)
\* C22: the step that ends a request of the form with the error
\* notification leads to a state in which uploadStatus is 'error' and the
\* status panel is visible; and whenever the form on the page has the
\* status 'error', the status panel is visible.
C22_ErrorStageIsShown ==
  /\ []((orderProps # <<>> /\ uploadStatus = "error") => statusPanelVisible)
  /\ [][(orderRequest # <<>> /\ orderToasts' = << "Error" >>) =>
          (uploadStatus' = "error" /\ statusPanelVisible')]_vars


(***************************************************************************)
(* The submit control of the order form after a request has settled.       *)
(***************************************************************************)
\* C23: the step that ends a request with success leaves submitting true
\* and loading false; from then on, as long as the form is on the page,
\* submitting stays true and no request is issued, in particular none while
\* the redirect is pending; the step that ends a request with the error
\* notification leaves loading and submitting both false.
C23_SubmitStaysDisabledAfterSuccess ==
  /\ []((orderProps # <<>> /\ uploadStatus = "complete") =>
          (submitting /\ ~loading /\ orderRequest = <<>>))
  /\ [](navigateTimers > 0 => (orderRequest = <<>> /\ orderInFlight = 0))
  /\ [][/\ (orderRequest # <<>> /\ orderToasts' = << "Order Created" >>) =>
             (submitting' /\ ~loading' /\ uploadStatus' = "complete")
        /\ (orderProps # <<>> /\ uploadStatus = "complete") =>
             orderRequest' = <<>>
        /\ (orderRequest # <<>> /\ orderToasts' = << "Error" >>) =>
             (~submitting' /\ ~loading')]_vars

\* C23 witness: an order has been created and the redirect is pending; the
\* form is still on the page with submitting true and loading false.
C23_Witness ==
  /\ orderProps # <<>>
  /\ uploadStatus = "complete"
  /\ navigateTimers = 1
  /\ submitting
  /\ ~loading
  /\ orderRequest = <<>>


(***************************************************************************)
(* The timeout timer of an upload attempt.                                 *)
(***************************************************************************)
\* C24: a timeout timer is armed only while the request of its attempt is
\* in flight and not cancelled; the step in which a request settles leaves
\* no timer armed; the timer's cancellation happens only to a request in
\* flight, with the timer of that request, and every 'Upload Timeout'
\* notification is shown in a step that starts from a request in flight;
\* a new attempt starts with no timer of an earlier attempt armed and with
\* no other request in flight.
C24_TimerClearedWhenRequestSettles ==
  /\ [](timeoutArmed => (request # <<>> /\ ~cancelled))
  /\ [](inFlight \in { 0, 1 })
  /\ [][/\ (request # <<>> /\ request' = <<>>) => ~timeoutArmed'
        /\ (cancelled' /\ ~cancelled) =>
             (request # <<>> /\ request' = request /\ timeoutArmed
                /\ ~timeoutArmed')
        /\ toasts' = << "Upload Timeout" >> => request # <<>>
        /\ (request = <<>> /\ request' # <<>>) =>
             (~timeoutArmed /\ inFlight = 0 /\ timeoutArmed')]_vars

\* C24 witness: a request has been rejected by the network while its timer
\* was armed; the attempt has ended and no timer is armed.
C24_Witness ==
  /\ posts = 1
  /\ request = <<>>
  /\ toasts = << "Network Error" >>
  /\ ~timeoutArmed
  /\ ~cancelled
  /\ inFlight = 0


(***************************************************************************)
(* The folder conversion of the upload wizard.                             *)
(***************************************************************************)
\* C25: the step that ends a run of convertFolderToZip, with the
\* 'Folder Converted' or with the 'Conversion Failed' notification, leaves
\* isConverting false; after a successful run the selected file is either
\* the one selected before or the archive, and it is the archive only if
\* the archive is a .zip of type application/zip of at most 1 GB (an
\* archive refused as too large or of a wrong type leaves the selection as
\* it was); a run that throws leaves the selected file as it was.
C25_ConversionEndsAndValidates ==
  [][/\ (isConverting /\ Len(toasts') = 2 /\ toasts'[2] = "Folder Converted") =>
          /\ ~isConverting'
          /\ toasts'[1] # "File Selected" => file' = file
          /\ file' # file =>
               /\ file' # <<>>
               /\ toasts'[1] = "File Selected"
               /\ file'[1].size <= maxSize
               /\ endsWith(file'[1].name, <<".","z","i","p">>)
               /\ file'[1].type =
                    <<"a","p","p","l","i","c","a","t","i","o","n","/","z","i","p">>
     /\ (isConverting /\ toasts' = << "Conversion Failed" >>) =>
          (~isConverting' /\ file' = file)
     /\ (isConverting /\ ~isConverting') =>
          \/ toasts' = << "Conversion Failed" >>
          \/ Len(toasts') = 2 /\ toasts'[2] = "Folder Converted"]_vars

\* C25 witness: with a file selected, a folder was converted into an
\* archive over 1 GB: the archive was refused, the run has ended and the
\* file selected before is still selected.
C25_Witness ==
  /\ toasts = << "File too large", "Folder Converted" >>
  /\ ~isConverting
  /\ file # <<>>
  /\ file[1].size <= maxSize


\* C26: while a run of convertFolderToZip is going on, no step lowers
\* conversionProgress, and conversionProgress stays within 0..100.
C26_ConversionProgressMonotone ==
  /\ [](conversionProgress \in 0..100)
  /\ [][isConverting => conversionProgress' >= conversionProgress]_vars

\* C27: while no conversion is running, no interval timer of a conversion
\* is set, and no step changes conversionProgress.
C27_IntervalStoppedWhenRunEnds ==
  /\ [](~isConverting => (progressInterval = <<>> /\ leakedIntervals = {}))
  /\ [][(~isConverting /\ ~isConverting') =>
          conversionProgress' = conversionProgress]_vars


(***************************************************************************)
(* The album-name suggestion of the upload wizard.                         *)
(***************************************************************************)
\* C28: a non-empty album name changes only when the user types into the
\* album-name input: no step that selects a file or a folder, or that ends
\* a conversion, changes an album name that is non-empty when the step is
\* taken.
C28_SuggestionNeverOverwritesName ==
  [][(albumName # <<>> /\ albumName' # albumName) =>
       /\ toasts' = <<>>
       /\ file' = file
       /\ selectedFolder' = selectedFolder
       /\ isConverting' = isConverting]_vars


(***************************************************************************)
(* The selection while an upload is in flight.                             *)
(***************************************************************************)
\* C29: no step taken while isUploading is true changes the selected file,
\* and the file handed to onAlbumUploaded is the file selected in the
\* wizard when the callback is invoked.
C29_SelectionFrozenWhileUploading ==
  [][/\ isUploading => file' = file
     /\ uploadedCalls' # <<>> =>
          (file # <<>> /\ uploadedCalls'[1].file = file[1])]_vars


(***************************************************************************)
(* The notifications of an upload attempt.                                 *)
(***************************************************************************)
\* C30: no step shows more than one notification about an upload; the step
\* that ends an attempt with success shows no error notification; the step
\* that ends a failed attempt shows one error notification when the attempt
\* has shown none before, and shows none when the timer of the attempt has
\* already shown its 'Upload Timeout' notification.
C30_OneErrorNotificationPerFailure ==
  [][(request # <<>> /\ request' = <<>>) =>
       /\ Len(toasts') <= 1
       /\ uploadedCalls' # <<>> => toasts' = << "Upload Successful" >>
       /\ (uploadedCalls' = <<>> /\ ~cancelled) =>
            (Len(toasts') = 1 /\ toasts' # << "Upload Successful" >>)
       /\ cancelled => toasts' = <<>>]_vars

====
